---- MODULE Spec2Model ----
(***************************************************************************)
(* Model of ccode's configuration engine:                                  *)
(*   - the Proxy Config Reconciler   (src/src/ccr_config.rs)               *)
(*   - the Backup Manager            (src/src/ccr_manager.rs)              *)
(*   - the Profile Store             (src/src/config.rs)                   *)
(*                                                                         *)
(* Conventions.                                                            *)
(*   Strings whose structure the code inspects (routes, URLs, names) are   *)
(*   sequences of tokens; each token stands for a literal piece of text    *)
(*   ("," is the comma, " " a blank, "https://" a scheme, ...).            *)
(*   Option<T> is a sequence of length 0 (None) or 1 (Some(x) = <<x>>).    *)
(*   Result<(), AppError> is the field err: "" for Ok, else the variant.   *)
(***************************************************************************)
EXTENDS Naturals, Sequences, FiniteSets, TLC

VARIABLES
    config_file,      \* ~/.claude-code-router/config.json: None or Some(JSON document)
    backups,          \* ~/.claude-code-router/backups: file name -> JSON document
    now,              \* Utc::now(), in whole seconds
    last,             \* history: the latest call, its result and its steps
    writes,           \* history: successful Reconciler writes over an existing file
    groups_direct,    \* Config.groups.direct: name -> DirectProfile
    groups_ccr,       \* Config.groups.ccr: name -> CcrProfile
    default_profile,  \* Config.default_profile: Option<DefaultProfile>
    store_last,       \* history: the latest Profile Store call and its result
    default_group,    \* Config.default_group: Option<String>
    legacy_default,   \* Config.default (old format): Option<String>
    legacy_profiles,  \* Config.profiles (old format): Option<name -> DirectProfile>
    profile_store,    \* ~/.config/ccode/config.json: None or Some(document)
    boot_last,        \* history: the latest Bootstrap Resolver call and its result
    pc,               \* per invocation of the tool: where it stands in its operation
    plan,             \* per invocation: the document it is about to write
    overwritten,      \* history: complete documents that were on disk and replaced
    backup_dir_exists \* whether ~/.claude-code-router/backups exists

fileVars  == <<config_file, backups, now, last, writes>>
legacyVars == <<default_group, legacy_default, legacy_profiles>>
storeVars == <<groups_direct, groups_ccr, default_profile, store_last, legacyVars>>
bootVars  == <<profile_store, boot_last>>
procVars  == <<pc, plan, overwritten>>
trailVars == <<backup_dir_exists>>
restVars  == <<bootVars, procVars, trailVars>>
vars      == <<config_file, backups, now, last, writes,
               groups_direct, groups_ccr, default_profile, store_last,
               default_group, legacy_default, legacy_profiles,
               profile_store, boot_last, pc, plan, overwritten,
               backup_dir_exists>>

(***************************************************************************)
(* Bounds of the model.                                                    *)
(***************************************************************************)
\* The clock runs over the seconds 0..MaxClock.
MaxClock == 1
\* A behaviour makes at most MaxWrites successful Reconciler writes over an
\* existing file.
MaxWrites == 2

(***************************************************************************)
(* Option and string helpers.                                              *)
(***************************************************************************)
None == <<>>
Some(x) == <<x>>
is_some(o) == Len(o) = 1
is_none(o) == Len(o) = 0

\* str::trim().is_empty(): nothing but blanks
trim_is_empty(s) == \A i \in 1..Len(s) : s[i] = " "
\* str::is_empty()
is_empty(s) == Len(s) = 0
\* str::contains(tok)
contains(s, tok) == \E i \in 1..Len(s) : s[i] = tok
\* str::starts_with(tok)
starts_with(s, tok) == Len(s) >= 1 /\ s[1] = tok
\* route_value.split(',').next(): the text before the first comma (all of it if none)
split_first(s) ==
    IF contains(s, ",")
    THEN LET i == CHOOSE k \in 1..Len(s) :
                      s[k] = "," /\ \A j \in 1..(k - 1) : s[j] # ","
         IN SubSeq(s, 1, i - 1)
    ELSE s

Range(f) == {f[x] : x \in DOMAIN f}

(***************************************************************************)
(* Schema types and validators (src/src/config.rs).                        *)
(***************************************************************************)
\* A slip: the Custom kind is held to the /chat/completions rule too.
validate_url_format_custom_too(provider_type, url) ==
    IF provider_type = "Gemini"
    THEN IF ~contains(url, "/v1beta/models/") THEN "InvalidConfig" ELSE ""
    ELSE IF ~contains(url, "/chat/completions") THEN "InvalidConfig" ELSE ""

\* ProviderType::validate_url_format
validate_url_format(provider_type, url) ==
    IF provider_type = "Gemini"
    THEN IF ~contains(url, "/v1beta/models/") THEN "InvalidConfig" ELSE ""
    ELSE IF ~contains(url, "/chat/completions") /\ provider_type # "Custom"
         THEN "InvalidConfig"
         ELSE ""

\* CcrProvider::validate
CcrProvider_validate(p) ==
    IF trim_is_empty(p.name) THEN "InvalidConfig"
    ELSE IF trim_is_empty(p.api_base_url) THEN "InvalidConfig"
    ELSE IF ~starts_with(p.api_base_url, "http://")
            /\ ~starts_with(p.api_base_url, "https://") THEN "InvalidConfig"
    ELSE IF Len(p.models) = 0 THEN "InvalidConfig"
    ELSE IF is_some(p.provider_type)
         THEN validate_url_format(p.provider_type[1], p.api_base_url)
         ELSE ""

\* The four optional routes of CcrRouter, in the order of the code.
OptionalRoutes == <<"background", "think", "long_context", "web_search">>

\* A slip: the shape of the default route is not checked.
CcrRouter_validate_no_shape(r) ==
    IF trim_is_empty(r.default) THEN "InvalidConfig"
    ELSE IF \E i \in 1..Len(OptionalRoutes) :
                /\ is_some(r[OptionalRoutes[i]])
                /\ ~trim_is_empty(r[OptionalRoutes[i]][1])
                /\ ~contains(r[OptionalRoutes[i]][1], ",")
         THEN "InvalidConfig"
         ELSE ""

\* CcrRouter::validate
CcrRouter_validate(r) ==
    IF trim_is_empty(r.default) THEN "InvalidConfig"
    ELSE IF ~contains(r.default, ",") THEN "InvalidConfig"
    ELSE IF \E i \in 1..Len(OptionalRoutes) :
                /\ is_some(r[OptionalRoutes[i]])
                /\ ~trim_is_empty(r[OptionalRoutes[i]][1])
                /\ ~contains(r[OptionalRoutes[i]][1], ",")
         THEN "InvalidConfig"
         ELSE ""

\* CcrRouter::get_all_routes: default, then every optional route that is Some
get_all_routes(r) ==
    LET opt(f) == IF is_some(r[f]) THEN <<r[f][1]>> ELSE <<>>
    IN <<r.default>> \o opt("background") \o opt("think")
          \o opt("long_context") \o opt("web_search")

\* provider_names: HashSet of the names of a provider list
provider_names(providers) == {providers[i].name : i \in 1..Len(providers)}

\* The loop shared by update_router_only, validate_router_references and
\* CcrProfile::validate: the routes whose provider segment names no provider.
dangling_routes(providers, router) ==
    LET routes == get_all_routes(router)
    IN {i \in 1..Len(routes) : split_first(routes[i]) \notin provider_names(providers)}

(***************************************************************************)
(* The Proxy Config document.                                              *)
(***************************************************************************)
\* CcrRouter::new: the threshold a new route set gets
DefaultLongContextThreshold == 60000

\* The fields of struct CcrRouter.
RouterFields == {"default", "background", "think", "long_context",
                 "long_context_threshold", "web_search"}

\* CcrRouter::new
CcrRouter_new(default) ==
    [default |-> default, background |-> None, think |-> None,
     long_context |-> None,
     long_context_threshold |-> Some(DefaultLongContextThreshold),
     web_search |-> None]

\* CcrConfig::default(): no providers, a placeholder route set, nothing else set
CcrConfig_default ==
    [APIKEY |-> None, PROXY_URL |-> None, LOG |-> None, API_TIMEOUT_MS |-> None,
     HOST |-> None, Providers |-> <<>>,
     Router |-> [default |-> <<>>, background |-> None, think |-> None,
                 long_context |-> None, long_context_threshold |-> None,
                 web_search |-> None],
     transformers |-> None, CUSTOM_ROUTER_PATH |-> None]

\* serde_json::from_str::<CcrConfig>: the Router object of the file may carry keys
\* that struct CcrRouter does not declare (field extra); deserialising drops them.
from_str(json) ==
    [json EXCEPT !.Router = [f \in RouterFields |-> json.Router[f]]]

\* serde_json::to_string_pretty(&config): only the declared fields are written
to_string_pretty(config) ==
    [config EXCEPT !.Router =
        [f \in RouterFields \cup {"extra"} |->
            IF f = "extra" THEN {} ELSE config.Router[f]]]

\* CcrConfig::validate: every provider, the route set, then the cross references
\* (the first violation rejects)
CcrConfig_validate(config) ==
    IF \E i \in 1..Len(config.Providers) :
           CcrProvider_validate(config.Providers[i]) # ""
    THEN "InvalidConfig"
    ELSE IF CcrRouter_validate(config.Router) # "" THEN "InvalidConfig"
    ELSE IF dangling_routes(config.Providers, config.Router) # {}
         THEN "InvalidConfig"
         ELSE ""

(***************************************************************************)
(* The backup directory.                                                   *)
(***************************************************************************)
\* format!("config_backup_{timestamp}.json"), the timestamp having second resolution
backup_filename(timestamp) == <<"config_backup_", timestamp, ".json">>

EmptyDir == [name \in {} |-> None]

\* fs::copy(from, to): creates to, or replaces its content if it exists
fs_copy(dir, name, content) ==
    [n \in DOMAIN dir \cup {name} |-> IF n = name THEN content ELSE dir[n]]

\* fs::remove_file
fs_remove(dir, name) == [n \in DOMAIN dir \ {name} |-> dir[n]]

(***************************************************************************)
(* Proxy Config Reconciler (src/src/ccr_config.rs).  Each operation is an   *)
(* operator from the current files and its inputs to an outcome: the files  *)
(* afterwards, the error ("" for Ok) and the steps taken, in order.         *)
(* copy_ok: whether fs::copy into the backup directory succeeds.            *)
(***************************************************************************)
Outcome(file, dir, err, steps) ==
    [file |-> file, backups |-> dir, err |-> err, steps |-> steps, value |-> None]

\* Ok(value)
Returning(outcome, value) == [outcome EXCEPT !.value = Some(value)]

\* CcrConfigManager::load_config
load_config ==
    IF is_none(config_file) THEN CcrConfig_default ELSE from_str(config_file[1])

\* CcrConfigManager::create_backup (and CcrManager::create_backup, which also
\* creates the directory when missing)
create_backup(copy_ok) ==
    IF is_none(config_file)
    THEN Outcome(config_file, backups, "Config", <<"check">>)
    ELSE IF ~copy_ok
    THEN Outcome(config_file, backups, "Io", <<"check", "backup">>)
    ELSE Returning(Outcome(config_file,
                           fs_copy(backups, backup_filename(now), config_file[1]),
                           "", <<"check", "backup">>),
                   backup_filename(now))

\* A slip: the new content is written first and the backup taken afterwards.
write_then_backup(config, copy_ok, steps) ==
    IF is_some(config_file)
    THEN IF ~copy_ok
         THEN Outcome(Some(to_string_pretty(config)), backups, "Io",
                      steps \o <<"write", "backup">>)
         ELSE Outcome(Some(to_string_pretty(config)),
                      fs_copy(backups, backup_filename(now), to_string_pretty(config)),
                      "", steps \o <<"write", "backup">>)
    ELSE Outcome(Some(to_string_pretty(config)), backups, "", steps \o <<"write">>)

\* The tail shared by the mutating operations:
\*   if self.config_path.exists() { self.create_backup()?; }
\*   fs::write(&self.config_path, to_string_pretty(&config))
backup_then_write(config, copy_ok, steps) ==
    IF is_some(config_file)
    THEN LET b == create_backup(copy_ok)
         IN IF b.err # ""
            THEN Outcome(config_file, backups, b.err, steps \o <<"backup">>)
            ELSE Outcome(Some(to_string_pretty(config)), b.backups, "",
                         steps \o <<"backup", "write">>)
    ELSE Outcome(Some(to_string_pretty(config)), backups, "", steps \o <<"write">>)

\* CcrConfigManager::save_config
save_config(config, copy_ok) ==
    IF CcrConfig_validate(config) # ""
    THEN Outcome(config_file, backups, CcrConfig_validate(config), <<"validate">>)
    ELSE backup_then_write(config, copy_ok, <<"validate">>)

\* A slip: the provider references of the new route set are not checked.
update_router_only_unchecked(router, copy_ok) ==
    IF CcrRouter_validate(router) # ""
    THEN Outcome(config_file, backups, CcrRouter_validate(router), <<"validate">>)
    ELSE backup_then_write([load_config EXCEPT !.Router = router], copy_ok,
                           <<"validate", "load">>)

\* A slip: the document written is a fresh one carrying the providers and the new
\* route set, not the loaded one.
update_router_only_fresh_document(router, copy_ok) ==
    IF CcrRouter_validate(router) # ""
    THEN Outcome(config_file, backups, CcrRouter_validate(router), <<"validate">>)
    ELSE LET config == load_config
         IN IF dangling_routes(config.Providers, router) # {}
            THEN Outcome(config_file, backups, "InvalidConfig",
                         <<"validate", "load", "check">>)
            ELSE backup_then_write(
                     [CcrConfig_default EXCEPT !.Providers = config.Providers,
                                               !.Router = router],
                     copy_ok, <<"validate", "load", "check">>)

\* CcrConfigManager::update_router_only
update_router_only(router, copy_ok) ==
    IF CcrRouter_validate(router) # ""
    THEN Outcome(config_file, backups, CcrRouter_validate(router), <<"validate">>)
    ELSE LET config == load_config
         IN IF dangling_routes(config.Providers, router) # {}
            THEN Outcome(config_file, backups, "InvalidConfig",
                         <<"validate", "load", "check">>)
            ELSE backup_then_write([config EXCEPT !.Router = router], copy_ok,
                                   <<"validate", "load", "check">>)

\* A slip: the predicate of retain is inverted.
RECURSIVE retain_same(_, _)
retain_same(providers, name) ==
    IF Len(providers) = 0 THEN <<>>
    ELSE IF Head(providers).name = name
         THEN <<Head(providers)>> \o retain_same(Tail(providers), name)
         ELSE retain_same(Tail(providers), name)

\* Vec::retain(|p| p.name != name)
RECURSIVE retain_other(_, _)
retain_other(providers, name) ==
    IF Len(providers) = 0 THEN <<>>
    ELSE IF Head(providers).name # name
         THEN <<Head(providers)>> \o retain_other(Tail(providers), name)
         ELSE retain_other(Tail(providers), name)

\* iter_mut().find(|p| p.name == name): the first entry of that name
find_first(providers, name) ==
    CHOOSE i \in 1..Len(providers) :
        providers[i].name = name /\ \A j \in 1..(i - 1) : providers[j].name # name

\* The match of update_provider_only: the error, or the changed document
Changed(config, steps) == [err |-> "", config |-> config, steps |-> steps]
Refused(err, steps) == [err |-> err, config |-> None, steps |-> steps]

provider_change(config, provider, operation) ==
    LET exists == provider.name \in provider_names(config.Providers)
    IN CASE operation = "Add" ->
              IF CcrProvider_validate(provider) # ""
              THEN Refused(CcrProvider_validate(provider), <<"load", "validate">>)
              ELSE IF exists
              THEN Refused("Config", <<"load", "validate", "check">>)
              ELSE Changed([config EXCEPT !.Providers = Append(@, provider)],
                           <<"load", "validate", "check">>)
         [] operation = "Update" ->
              IF CcrProvider_validate(provider) # ""
              THEN Refused(CcrProvider_validate(provider), <<"load", "validate">>)
              ELSE IF ~exists
              THEN Refused("Config", <<"load", "validate", "check">>)
              ELSE Changed([config EXCEPT
                               !.Providers[find_first(config.Providers,
                                                      provider.name)] = provider],
                           <<"load", "validate", "check">>)
         [] operation = "Remove" ->
              IF Len(retain_other(config.Providers, provider.name))
                     = Len(config.Providers)
              THEN Refused("Config", <<"load", "check">>)
              ELSE Changed([config EXCEPT
                               !.Providers = retain_other(@, provider.name)],
                           <<"load", "check">>)

\* A slip: the backup is taken on entry, before the provider is looked at.
update_provider_only_backup_first(provider, operation, copy_ok) ==
    LET change == provider_change(load_config, provider, operation)
        dir == IF is_some(config_file) /\ copy_ok
               THEN create_backup(copy_ok).backups ELSE backups
    IN IF is_some(config_file) /\ ~copy_ok
       THEN Outcome(config_file, backups, "Io", <<"load", "backup">>)
       ELSE IF change.err # ""
       THEN Outcome(config_file, dir, change.err, <<"load", "backup">> \o change.steps)
       ELSE Outcome(Some(to_string_pretty(change.config)), dir, "",
                    <<"load", "backup">> \o change.steps \o <<"write">>)

\* CcrConfigManager::update_provider_only
update_provider_only(provider, operation, copy_ok) ==
    LET change == provider_change(load_config, provider, operation)
    IN IF change.err # ""
       THEN Outcome(config_file, backups, change.err, change.steps)
       ELSE backup_then_write(change.config, copy_ok, change.steps)

\* CcrConfigManager::update_providers_only
update_providers_only(providers, copy_ok) ==
    IF \E i \in 1..Len(providers) : CcrProvider_validate(providers[i]) # ""
    THEN Outcome(config_file, backups, "InvalidConfig", <<"validate">>)
    ELSE backup_then_write([load_config EXCEPT !.Providers = providers], copy_ok,
                           <<"validate", "load">>)

\* CcrConfigManager::remove_provider builds this payload: only the name is real
temp_provider(name) ==
    [name |-> name, api_base_url |-> <<>>, api_key |-> "", models |-> <<>>,
     transformer |-> None, provider_type |-> None]

(***************************************************************************)
(* Backup Manager (src/src/ccr_manager.rs).                                *)
(***************************************************************************)
\* backups.sort_by(|a, b| b.cmp(a)): the names in descending order; names differ
\* only in their fixed-width timestamp
\* A slip: the names are sorted oldest first.
RECURSIVE sort_asc(_)
sort_asc(names) ==
    IF names = {} THEN <<>>
    ELSE LET oldest == CHOOSE n \in names : \A m \in names : n[2] <= m[2]
         IN <<oldest>> \o sort_asc(names \ {oldest})

RECURSIVE sort_desc(_)
sort_desc(names) ==
    IF names = {} THEN <<>>
    ELSE LET newest == CHOOSE n \in names : \A m \in names : m[2] <= n[2]
         IN <<newest>> \o sort_desc(names \ {newest})

\* CcrManager::list_backups
list_backups == sort_desc(DOMAIN backups)

\* CcrManager::restore_from_backup: the current file is backed up first (a failure
\* of that backup is ignored), then the named backup is copied over the file;
\* restore_ok: whether that last fs::copy succeeds
restore_from_backup(name, copy_ok, restore_ok) ==
    IF name \notin DOMAIN backups
    THEN Outcome(config_file, backups, "Config", <<"check">>)
    ELSE LET dir == IF is_some(config_file)
                    THEN create_backup(copy_ok).backups
                    ELSE backups
             steps == IF is_some(config_file) THEN <<"check", "backup">>
                      ELSE <<"check">>
         IN IF restore_ok
            THEN Outcome(Some(dir[name]), dir, "", steps \o <<"write">>)
            ELSE Outcome(config_file, dir, "Io", steps)

\* CcrManager::delete_backup; remove_ok: whether fs::remove_file succeeds
delete_backup(name, remove_ok) ==
    IF name \notin DOMAIN backups
    THEN Outcome(config_file, backups, "Config", <<"check">>)
    ELSE IF ~remove_ok
    THEN Outcome(config_file, backups, "Io", <<"check">>)
    ELSE Outcome(config_file, fs_remove(backups, name), "", <<"check", "remove">>)

\* CcrManager::cleanup_old_backups; undeletable: the files whose removal fails
cleanup_old_backups(keep_count, undeletable) ==
    LET listed == list_backups
    IN IF Len(listed) <= keep_count
       THEN Returning(Outcome(config_file, backups, "", <<>>), 0)
       ELSE LET to_delete == {listed[i] : i \in (keep_count + 1)..Len(listed)}
                deleted == to_delete \ undeletable
            IN Returning(Outcome(config_file,
                                 [n \in DOMAIN backups \ deleted |-> backups[n]],
                                 "", <<"remove">>),
                         Cardinality(deleted))

(***************************************************************************)
(* Inputs of the Reconciler and the Backup Manager.                        *)
(***************************************************************************)
\* "provider,model"
Route(provider, model) == <<provider, ",", model>>

UrlChat == <<"https://", "host", "/chat/completions">>

pA1 == [name |-> <<"a">>, api_base_url |-> UrlChat, api_key |-> "k1",
        models |-> <<"m1">>, transformer |-> None, provider_type |-> Some("OpenAI")]
pA2 == [pA1 EXCEPT !.api_key = "k2"]
pB1 == [name |-> <<"b">>, api_base_url |-> <<"http://", "host">>, api_key |-> "k1",
        models |-> <<"m1">>, transformer |-> None, provider_type |-> None]
\* a Gemini provider whose URL lacks /v1beta/models/
pBadUrl == [pB1 EXCEPT !.api_base_url = UrlChat, !.provider_type = Some("Gemini")]

ProviderInputs ==
    {pA1, pA2, pB1, pBadUrl, temp_provider(<<"a">>), temp_provider(<<"b">>)}

ProviderOperation == {"Add", "Update", "Remove"}

rA      == CcrRouter_new(Route("a", "m1"))
rBA     == [CcrRouter_new(Route("b", "m1")) EXCEPT !.think = Some(Route("a", "m1"))]
rGhost  == CcrRouter_new(Route("ghost", "m1"))
rNoComma == CcrRouter_new(<<"a">>)
rBlank  == CcrRouter_new(<<" ">>)
rOptBlank == [rA EXCEPT !.background = Some(<<>>)]
rOptNoComma == [rA EXCEPT !.think = Some(<<"m1">>)]
rOptGhost == [rA EXCEPT !.web_search = Some(Route("ghost", "m1"))]

RouterInputs ==
    {rA, rBA, rGhost, rNoComma, rBlank, rOptBlank, rOptNoComma, rOptGhost}

ProvidersInputs == {<<>>, <<pB1>>, <<pB1, pA1>>, <<temp_provider(<<"a">>)>>}

Settings(log, timeout, host) ==
    [CcrConfig_default EXCEPT !.LOG = log, !.API_TIMEOUT_MS = timeout, !.HOST = host]

cValid == [Settings(None, None, Some("h2")) EXCEPT
              !.Providers = <<pA2>>, !.Router = rA]
cGhost == [CcrConfig_default EXCEPT !.Router = rGhost]
cBadProvider == [cValid EXCEPT !.Providers = <<pBadUrl, pA1>>]
cBadRoute == [cValid EXCEPT !.Router = rNoComma]

ConfigInputs == {cValid, cGhost, cBadProvider, cBadRoute}

\* The files the tool may find when it starts: none, or a hand-edited one whose
\* Router object carries a key the tool does not know.
fHandEdited ==
    [Settings(Some(TRUE), Some(600000), None) EXCEPT
        !.Providers = <<pA1>>,
        !.Router = [f \in RouterFields \cup {"extra"} |->
                       IF f = "extra" THEN {"image"} ELSE rA[f]]]

InitialFiles == {None, Some(fHandEdited)}

BackupNames == {backup_filename(t) : t \in 0..MaxClock}
\* keep_count ranges over 0..MaxKeep
MaxKeep == 2

(***************************************************************************)
(* Profile Store (struct Config of src/src/config.rs).  Each operation is   *)
(* an operator from the current store and its inputs to the store           *)
(* afterwards and the error ("" for Ok).                                    *)
(***************************************************************************)
StoreOutcome(direct, ccr, default, err) ==
    [direct |-> direct, ccr |-> ccr, default_profile |-> default, err |-> err]

\* the store as it is, with an error
StoreRefused(err) == StoreOutcome(groups_direct, groups_ccr, default_profile, err)

\* HashMap::insert
insert(map, name, value) ==
    [n \in DOMAIN map \cup {name} |-> IF n = name THEN value ELSE map[n]]

\* A slip: removing one key empties the map.
remove_clears(map, name) == [n \in {} |-> None]

\* HashMap::remove
remove(map, name) == [n \in DOMAIN map \ {name} |-> map[n]]

\* HashMap::keys().next().cloned(): the iteration order of a HashMap is not
\* fixed, so any key may come first; None when the map is empty
keys_next(map) ==
    IF DOMAIN map = {} THEN {None} ELSE {Some(k) : k \in DOMAIN map}

\* A slip: the scheme of the base URL is not looked at.
validate_direct_profile_any_scheme(profile) ==
    IF trim_is_empty(profile.anthropic_auth_token) THEN "InvalidConfig"
    ELSE IF trim_is_empty(profile.anthropic_base_url) THEN "InvalidConfig"
    ELSE ""

\* Config::validate_direct_profile
validate_direct_profile(profile) ==
    IF trim_is_empty(profile.anthropic_auth_token) THEN "InvalidConfig"
    ELSE IF trim_is_empty(profile.anthropic_base_url) THEN "InvalidConfig"
    ELSE IF ~starts_with(profile.anthropic_base_url, "http://")
            /\ ~starts_with(profile.anthropic_base_url, "https://")
         THEN "InvalidConfig"
         ELSE ""

\* CcrProfile::validate
CcrProfile_validate(profile) ==
    IF Len(profile.providers) = 0 THEN "InvalidConfig"
    ELSE IF \E i \in 1..Len(profile.providers) :
                CcrProvider_validate(profile.providers[i]) # ""
    THEN "InvalidConfig"
    ELSE IF CcrRouter_validate(profile.router) # "" THEN "InvalidConfig"
    ELSE IF dangling_routes(profile.providers, profile.router) # {}
         THEN "InvalidConfig"
         ELSE ""

\* Config::validate_ccr_profile
validate_ccr_profile(profile) == CcrProfile_validate(profile)

\* default_profile with its pointer for one group set; the other pointer is kept,
\* or None when there was no default_profile at all
with_default(group, pointer) ==
    IF is_some(default_profile)
    THEN Some([default_profile[1] EXCEPT ![group] = pointer])
    ELSE Some([[direct |-> None, ccr |-> None] EXCEPT ![group] = pointer])

\* Config::get_direct_profile
get_direct_profile(name) ==
    IF name \in DOMAIN groups_direct
    THEN [err |-> "", value |-> Some(groups_direct[name])]
    ELSE [err |-> "ProfileNotFound", value |-> None]

\* A slip: every successful add makes the new entry the default.
add_direct_profile_always_default(name, profile) ==
    IF name \in DOMAIN groups_direct THEN StoreRefused("Config")
    ELSE IF validate_direct_profile(profile) # "" THEN StoreRefused("InvalidConfig")
    ELSE StoreOutcome(insert(groups_direct, name, profile), groups_ccr,
                      with_default("direct", Some(name)), "")

\* A slip: the entry is inserted before it is validated.
add_direct_profile_insert_first(name, profile) ==
    IF name \in DOMAIN groups_direct THEN StoreRefused("Config")
    ELSE LET direct == insert(groups_direct, name, profile)
         IN IF validate_direct_profile(profile) # ""
            THEN StoreOutcome(direct, groups_ccr, default_profile, "InvalidConfig")
            ELSE StoreOutcome(direct, groups_ccr,
                              IF Cardinality(DOMAIN direct) = 1
                              THEN with_default("direct", Some(name))
                              ELSE default_profile,
                              "")

\* A slip: the first entry of the collection is not made its default.
add_direct_profile_no_default(name, profile) ==
    IF name \in DOMAIN groups_direct THEN StoreRefused("Config")
    ELSE IF validate_direct_profile(profile) # "" THEN StoreRefused("InvalidConfig")
    ELSE StoreOutcome(insert(groups_direct, name, profile), groups_ccr,
                      default_profile, "")

\* Config::add_direct_profile
add_direct_profile(name, profile) ==
    IF name \in DOMAIN groups_direct THEN StoreRefused("Config")
    ELSE IF validate_direct_profile(profile) # "" THEN StoreRefused("InvalidConfig")
    ELSE LET direct == insert(groups_direct, name, profile)
         IN StoreOutcome(direct, groups_ccr,
                         IF Cardinality(DOMAIN direct) = 1
                         THEN with_default("direct", Some(name))
                         ELSE default_profile,
                         "")

\* Config::add_ccr_profile
add_ccr_profile(name, profile) ==
    IF name \in DOMAIN groups_ccr THEN StoreRefused("Config")
    ELSE IF validate_ccr_profile(profile) # "" THEN StoreRefused("InvalidConfig")
    ELSE LET ccr == insert(groups_ccr, name, profile)
         IN StoreOutcome(groups_direct, ccr,
                         IF Cardinality(DOMAIN ccr) = 1
                         THEN with_default("ccr", Some(name))
                         ELSE default_profile,
                         "")

\* A slip: the default is reassigned whichever entry is removed.
remove_direct_profile_reassign_always(name, first_key) ==
    IF name \notin DOMAIN groups_direct THEN StoreRefused("ProfileNotFound")
    ELSE StoreOutcome(remove(groups_direct, name), groups_ccr,
                      IF is_some(default_profile)
                      THEN Some([default_profile[1] EXCEPT !.direct = first_key])
                      ELSE default_profile,
                      "")

\* A slip: the entry is removed and the default pointer is left as it was.
remove_direct_profile_keep_default(name, first_key) ==
    IF name \notin DOMAIN groups_direct THEN StoreRefused("ProfileNotFound")
    ELSE StoreOutcome(remove(groups_direct, name), groups_ccr, default_profile, "")

\* Config::remove_direct_profile; first_key: what keys().next() yields on the
\* map after the removal
remove_direct_profile(name, first_key) ==
    IF name \notin DOMAIN groups_direct THEN StoreRefused("ProfileNotFound")
    ELSE StoreOutcome(remove(groups_direct, name), groups_ccr,
                      IF is_some(default_profile)
                         /\ default_profile[1].direct = Some(name)
                      THEN Some([default_profile[1] EXCEPT !.direct = first_key])
                      ELSE default_profile,
                      "")

\* Config::remove_ccr_profile
remove_ccr_profile(name, first_key) ==
    IF name \notin DOMAIN groups_ccr THEN StoreRefused("ProfileNotFound")
    ELSE StoreOutcome(groups_direct, remove(groups_ccr, name),
                      IF is_some(default_profile)
                         /\ default_profile[1].ccr = Some(name)
                      THEN Some([default_profile[1] EXCEPT !.ccr = first_key])
                      ELSE default_profile,
                      "")

\* Config::remove_profile: the direct group is tried first
remove_profile(name, first_direct, first_ccr) ==
    IF name \in DOMAIN groups_direct THEN remove_direct_profile(name, first_direct)
    ELSE IF name \in DOMAIN groups_ccr THEN remove_ccr_profile(name, first_ccr)
    ELSE StoreRefused("ProfileNotFound")

\* A slip: the name is not looked up before the pointer is set.
set_default_direct_unchecked(name) ==
    StoreOutcome(groups_direct, groups_ccr, with_default("direct", Some(name)), "")

\* Config::set_default_direct
set_default_direct(name) ==
    IF name \notin DOMAIN groups_direct THEN StoreRefused("ProfileNotFound")
    ELSE StoreOutcome(groups_direct, groups_ccr,
                      with_default("direct", Some(name)), "")

\* Config::set_default_ccr
set_default_ccr(name) ==
    IF name \notin DOMAIN groups_ccr THEN StoreRefused("ProfileNotFound")
    ELSE StoreOutcome(groups_direct, groups_ccr,
                      with_default("ccr", Some(name)), "")

\* A slip: the ccr collection is looked at first.
set_default_ccr_first(name) ==
    IF name \in DOMAIN groups_ccr THEN set_default_ccr(name)
    ELSE IF name \in DOMAIN groups_direct THEN set_default_direct(name)
    ELSE StoreRefused("ProfileNotFound")

\* Config::set_default: the direct group is tried first
set_default(name) ==
    IF name \in DOMAIN groups_direct THEN set_default_direct(name)
    ELSE IF name \in DOMAIN groups_ccr THEN set_default_ccr(name)
    ELSE StoreRefused("ProfileNotFound")

(***************************************************************************)
(* Legacy Migrator (Config::migrate_legacy_format), on the loaded Config.   *)
(***************************************************************************)
Migrated(direct, default, group, old_default, profiles) ==
    [direct |-> direct, default_profile |-> default, default_group |-> group,
     legacy_default |-> old_default, legacy_profiles |-> profiles]

\* for (name, profile) in profiles { self.groups.direct.insert(name, profile) }
insert_all(map, profiles) ==
    [n \in DOMAIN map \cup DOMAIN profiles |->
        IF n \in DOMAIN profiles THEN profiles[n] ELSE map[n]]

\* A slip: the old default replaces a direct default that is already set.
promote_default_always ==
    IF is_none(legacy_default) THEN default_profile
    ELSE IF is_none(default_profile)
    THEN Some([direct |-> legacy_default, ccr |-> None])
    ELSE Some([default_profile[1] EXCEPT !.direct = legacy_default])

\* the second block of migrate_legacy_format: self.default.take() and what
\* becomes of default_profile
promote_default ==
    IF is_none(legacy_default) THEN default_profile
    ELSE IF is_none(default_profile)
    THEN Some([direct |-> legacy_default, ccr |-> None])
    ELSE IF is_none(default_profile[1].direct)
    THEN Some([default_profile[1] EXCEPT !.direct = legacy_default])
    ELSE default_profile

\* A slip: once the old profiles are moved the function returns; the old default
\* and default_group wait for the next load.
migrate_legacy_format_early_return ==
    IF is_some(legacy_profiles)
    THEN Migrated(insert_all(groups_direct, legacy_profiles[1]), default_profile,
                  default_group, legacy_default, None)
    ELSE Migrated(groups_direct, promote_default,
                  IF is_none(default_group) THEN Some("direct") ELSE default_group,
                  None, None)

\* Config::migrate_legacy_format
migrate_legacy_format ==
    Migrated(IF is_some(legacy_profiles)
             THEN insert_all(groups_direct, legacy_profiles[1])
             ELSE groups_direct,
             promote_default,
             IF is_none(default_group) THEN Some("direct") ELSE default_group,
             None, None)

(***************************************************************************)
(* Inputs of the Profile Store.                                            *)
(***************************************************************************)
ProfileNames == {"x", "y", "z"}
CcrProfileNames == {"x", "y"}

dOk1 == [anthropic_auth_token |-> <<"t1">>,
         anthropic_base_url |-> <<"https://", "host">>,
         description |-> None, created_at |-> None]
dOk2 == [dOk1 EXCEPT !.anthropic_auth_token = <<"t2">>,
                     !.anthropic_base_url = <<"http://", "host">>]
dBlankToken == [dOk1 EXCEPT !.anthropic_auth_token = <<" ">>]
dBlankUrl == [dOk1 EXCEPT !.anthropic_base_url = <<>>]
dBadScheme == [dOk1 EXCEPT !.anthropic_base_url = <<"ftp://", "host">>]

DirectProfileInputs == {dOk1, dOk2, dBlankToken, dBlankUrl, dBadScheme}

kOk == [providers |-> <<pA1>>, router |-> rA, api_timeout_ms |-> Some(600000),
        proxy_url |-> None, log |-> Some(TRUE), api_key |-> None, host |-> None,
        description |-> None, created_at |-> None]
kNoProviders == [kOk EXCEPT !.providers = <<>>]
kBadProvider == [kOk EXCEPT !.providers = <<pA1, pBadUrl>>]
kBadRoute == [kOk EXCEPT !.router = rOptNoComma]
kGhost == [kOk EXCEPT !.router = rOptGhost]

CcrProfileInputs == {kOk, kNoProviders, kBadProvider, kBadRoute, kGhost}

(***************************************************************************)
(* The Reconciler and the Backup Manager as a state machine.               *)
(***************************************************************************)
\* the invocations of the tool that may run at the same time
Procs == {1, 2}

\* no invocation has started
InitProcs ==
    /\ pc = [p \in Procs |-> "idle"]
    /\ plan = [p \in Procs |-> None]
    /\ overwritten = {}

\* CcrConfigManager::new has created the backup directory
InitTrail == backup_dir_exists = TRUE

\* no Profile Store file yet, no Bootstrap Resolver call yet
InitBoot ==
    /\ profile_store = None
    /\ boot_last = [op |-> "init", name |-> "", result |-> "", value |-> None,
                    steps |-> <<>>]

InitRest == InitBoot /\ InitProcs /\ InitTrail

\* Config::default(): both groups empty, a default_profile with no pointer set
InitStore ==
    /\ groups_direct = EmptyDir
    /\ groups_ccr = EmptyDir
    /\ default_profile = Some([direct |-> None, ccr |-> None])
    /\ store_last = [op |-> "init", name |-> "", err |-> ""]
    /\ default_group = Some("direct")
    /\ legacy_default = None
    /\ legacy_profiles = None

InitFiles ==
    /\ config_file \in InitialFiles
    /\ backups = EmptyDir
    /\ now = 0
    /\ last = [op |-> "init", operation |-> "", err |-> "", steps |-> <<>>,
               existed |-> is_some(config_file)]
    /\ writes = 0

Init == InitFiles /\ InitStore /\ InitRest

\* A call: the files become the outcome's, and the call is recorded.
Call(op, operation, outcome) ==
    /\ config_file' = outcome.file
    /\ backups' = outcome.backups
    /\ last' = [op |-> op, operation |-> operation, err |-> outcome.err,
                steps |-> outcome.steps, existed |-> is_some(config_file)]
    /\ UNCHANGED <<now, storeVars, restVars>>

\* A Reconciler call, counted when it succeeds over an existing file.
Write(op, operation, outcome) ==
    /\ writes < MaxWrites
    /\ Call(op, operation, outcome)
    /\ writes' = IF outcome.err = "" /\ is_some(config_file)
                 THEN writes + 1 ELSE writes

Tick ==
    /\ now < MaxClock
    /\ now' = now + 1
    /\ UNCHANGED <<config_file, backups, last, writes, storeVars, restVars>>

SaveConfig ==
    \E config \in ConfigInputs, copy_ok \in BOOLEAN :
        Write("save_config", "", save_config(config, copy_ok))

UpdateRouterOnly ==
    \E router \in RouterInputs, copy_ok \in BOOLEAN :
        Write("update_router_only", "", update_router_only(router, copy_ok))

UpdateProviderOnly ==
    \E provider \in ProviderInputs, operation \in ProviderOperation,
       copy_ok \in BOOLEAN :
        Write("update_provider_only", operation,
              update_provider_only(provider, operation, copy_ok))

UpdateProvidersOnly ==
    \E providers \in ProvidersInputs, copy_ok \in BOOLEAN :
        Write("update_providers_only", "",
              update_providers_only(providers, copy_ok))

Next ==
    \/ Tick
    \/ SaveConfig
    \/ UpdateRouterOnly
    \/ UpdateProviderOnly
    \/ UpdateProvidersOnly

Spec == Init /\ [][Next]_vars

(***************************************************************************)
(* The Reconciler together with the Backup Manager.                        *)
(***************************************************************************)
CreateBackup ==
    \E copy_ok \in BOOLEAN :
        /\ Call("create_backup", "", create_backup(copy_ok))
        /\ UNCHANGED writes

RestoreFromBackup ==
    \E name \in BackupNames, copy_ok \in BOOLEAN, restore_ok \in BOOLEAN :
        /\ Call("restore_from_backup", "",
                restore_from_backup(name, copy_ok, restore_ok))
        /\ UNCHANGED writes

DeleteBackup ==
    \E name \in BackupNames, remove_ok \in BOOLEAN :
        /\ Call("delete_backup", "", delete_backup(name, remove_ok))
        /\ UNCHANGED writes

CleanupOldBackups ==
    \E keep_count \in 0..MaxKeep, undeletable \in SUBSET (DOMAIN backups) :
        /\ Call("cleanup_old_backups", "",
                cleanup_old_backups(keep_count, undeletable))
        /\ UNCHANGED writes

NextBackup ==
    \/ Tick
    \/ SaveConfig
    \/ UpdateRouterOnly
    \/ UpdateProviderOnly
    \/ UpdateProvidersOnly
    \/ CreateBackup
    \/ RestoreFromBackup
    \/ DeleteBackup
    \/ CleanupOldBackups

SpecBackup == Init /\ [][NextBackup]_vars

(***************************************************************************)
(* The Profile Store as a state machine.  It starts empty: as               *)
(* Config::default() builds it, or as Config::load reads a document that    *)
(* has no default_profile (an Option field serde leaves None).              *)
(***************************************************************************)
InitProfileStore ==
    /\ config_file = None
    /\ backups = EmptyDir
    /\ now = 0
    /\ last = [op |-> "init", operation |-> "", err |-> "", steps |-> <<>>,
               existed |-> FALSE]
    /\ writes = 0
    /\ groups_direct = EmptyDir
    /\ groups_ccr = EmptyDir
    /\ default_profile \in {None, Some([direct |-> None, ccr |-> None])}
    /\ store_last = [op |-> "init", name |-> "", err |-> ""]
    /\ default_group = Some("direct")
    /\ legacy_default = None
    /\ legacy_profiles = None
    /\ InitRest

\* A call on the store: the store becomes the outcome's, and the call is recorded.
StoreCall(op, name, outcome) ==
    /\ groups_direct' = outcome.direct
    /\ groups_ccr' = outcome.ccr
    /\ default_profile' = outcome.default_profile
    /\ store_last' = [op |-> op, name |-> name, err |-> outcome.err]
    /\ UNCHANGED <<fileVars, legacyVars, restVars>>

AddDirectProfile ==
    \E name \in ProfileNames, profile \in DirectProfileInputs :
        StoreCall("add_direct_profile", name, add_direct_profile(name, profile))

AddCcrProfile ==
    \E name \in CcrProfileNames, profile \in CcrProfileInputs :
        StoreCall("add_ccr_profile", name, add_ccr_profile(name, profile))

RemoveDirectProfile ==
    \E name \in ProfileNames :
        \E first_key \in keys_next(remove(groups_direct, name)) :
            StoreCall("remove_direct_profile", name,
                      remove_direct_profile(name, first_key))

RemoveCcrProfile ==
    \E name \in ProfileNames :
        \E first_key \in keys_next(remove(groups_ccr, name)) :
            StoreCall("remove_ccr_profile", name,
                      remove_ccr_profile(name, first_key))

RemoveProfile ==
    \E name \in ProfileNames :
        \E first_direct \in keys_next(remove(groups_direct, name)),
           first_ccr \in keys_next(remove(groups_ccr, name)) :
            StoreCall("remove_profile", name,
                      remove_profile(name, first_direct, first_ccr))

SetDefaultDirect ==
    \E name \in ProfileNames :
        StoreCall("set_default_direct", name, set_default_direct(name))

SetDefaultCcr ==
    \E name \in ProfileNames :
        StoreCall("set_default_ccr", name, set_default_ccr(name))

SetDefault ==
    \E name \in ProfileNames :
        StoreCall("set_default", name, set_default(name))

NextStore ==
    \/ AddDirectProfile
    \/ AddCcrProfile
    \/ RemoveDirectProfile
    \/ RemoveCcrProfile
    \/ RemoveProfile
    \/ SetDefaultDirect
    \/ SetDefaultCcr
    \/ SetDefault

SpecStore == InitProfileStore /\ [][NextStore]_vars

(***************************************************************************)
(* The Legacy Migrator as a state machine: any document serde can read      *)
(* (old format, current, hand-written, half upgraded) is migrated, again    *)
(* and again, as every Config::load does.                                   *)
(***************************************************************************)
LegacyDirectGroups ==
    {EmptyDir, insert(EmptyDir, "x", dOk1),
     insert(insert(EmptyDir, "x", dOk1), "y", dOk2)}
LegacyDefaultProfiles ==
    {None, Some([direct |-> None, ccr |-> None]),
     Some([direct |-> Some("x"), ccr |-> None]),
     Some([direct |-> Some("z"), ccr |-> None]),
     Some([direct |-> None, ccr |-> Some("x")])}
LegacyDefaultGroups == {None, Some("direct"), Some("ccr")}
LegacyDefaults == {None, Some("x"), Some("z")}
LegacyProfiles ==
    {None, Some(EmptyDir), Some(insert(EmptyDir, "x", dOk2)),
     Some(insert(EmptyDir, "z", dOk1))}

InitMigrate ==
    /\ config_file = None
    /\ backups = EmptyDir
    /\ now = 0
    /\ last = [op |-> "init", operation |-> "", err |-> "", steps |-> <<>>,
               existed |-> FALSE]
    /\ writes = 0
    /\ groups_direct \in LegacyDirectGroups
    /\ groups_ccr \in {EmptyDir, insert(EmptyDir, "x", kOk)}
    /\ default_profile \in LegacyDefaultProfiles
    /\ default_group \in LegacyDefaultGroups
    /\ legacy_default \in LegacyDefaults
    /\ legacy_profiles \in LegacyProfiles
    /\ store_last = [op |-> "init", name |-> "", err |-> ""]
    /\ InitRest

MigrateLegacyFormat ==
    LET migrated == migrate_legacy_format
    IN /\ groups_direct' = migrated.direct
       /\ default_profile' = migrated.default_profile
       /\ default_group' = migrated.default_group
       /\ legacy_default' = migrated.legacy_default
       /\ legacy_profiles' = migrated.legacy_profiles
       /\ store_last' = [op |-> "migrate_legacy_format", name |-> "", err |-> ""]
       /\ UNCHANGED <<fileVars, groups_ccr, restVars>>

NextMigrate == MigrateLegacyFormat

SpecMigrate == InitMigrate /\ [][NextMigrate]_vars

\* ---------------------------------------------------------------------------
\* Bootstrap Resolver (CcrConfigManager::ensure_router_profile_exists and
\* CcrConfigManager::get_router_profile) over the two documents
\* ---------------------------------------------------------------------------

\* A file whose content serde_json::from_str rejects
Unparseable == [parse_error |-> TRUE]

parses(content) == "parse_error" \notin DOMAIN content

\* The Profile Store document: groups.direct, groups.router and the router
\* pointer of default_profile
StoreDoc(direct, router, default_router) ==
    [direct |-> direct, router |-> router, default_router |-> default_router]

\* Config::default(): no profile in any group
Config_default == StoreDoc(EmptyDir, EmptyDir, None)

\* Config::load: ConfigNotFound when the file is missing, the parse error when
\* it cannot be parsed
Config_load(store) ==
    IF is_none(store) THEN [err |-> "ConfigNotFound", value |-> None]
    ELSE IF ~parses(store[1]) THEN [err |-> "Json", value |-> None]
    ELSE [err |-> "", value |-> store]

\* Config::load().unwrap_or_default()
Config_load_unwrap_or_default(store) ==
    IF Config_load(store).err = "" THEN Config_load(store).value[1]
    ELSE Config_default

\* A slip: save reports success and writes nothing.
Config_save_nothing(config, save_ok) == [err |-> "", store |-> profile_store]

\* Config::save: fs::write of the serialized document
Config_save(config, save_ok) ==
    IF save_ok THEN [err |-> "", store |-> Some(config)]
    ELSE [err |-> "Io", store |-> None]

\* RouterProfile::new: the route set is validated, as CcrProfile::new validates
\* its provider
RouterProfile_new(name, router, description) ==
    IF CcrRouter_validate(router) # ""
    THEN [err |-> CcrRouter_validate(router), value |-> None]
    ELSE [err |-> "",
          value |-> Some([name |-> name, router |-> router,
                          description |-> description, created_at |-> None])]

\* Config::add_router_profile: like add_ccr_profile, on groups.router
Config_add_router_profile(config, name, profile) ==
    IF name \in DOMAIN config.router THEN [err |-> "Config", config |-> config]
    ELSE IF CcrRouter_validate(profile.router) # ""
    THEN [err |-> CcrRouter_validate(profile.router), config |-> config]
    ELSE [err |-> "",
          config |-> [config EXCEPT
              !.router = insert(config.router, name, profile),
              !.default_router = IF config.router = EmptyDir THEN Some(name)
                                 ELSE config.default_router]]

\* Config::get_router_profile: like get_direct_profile, on groups.router
Config_get_router_profile(config, name) ==
    IF name \in DOMAIN config.router
    THEN [err |-> "", value |-> Some(config.router[name])]
    ELSE [err |-> "ProfileNotFound", value |-> None]

\* CcrConfigManager::config_exists
config_exists == is_some(config_file)

\* CcrConfigManager::load_config as a result: the default document when the
\* file is missing, the parse error when it cannot be parsed
load_config_result ==
    IF is_some(config_file) /\ ~parses(config_file[1])
    THEN [err |-> "Json", value |-> None]
    ELSE [err |-> "", value |-> Some(load_config)]

GeneratedDescription == "generated from the proxy configuration"

\* A slip: the generated profile takes only the default route of the document.
generate_default_router_profile_default_route_only ==
    IF load_config.Providers = <<>>
    THEN [err |-> "", value |-> None, warnings |-> {}]
    ELSE [err |-> RouterProfile_new("default", load_config.Router, None).err,
          value |-> RouterProfile_new("default",
                        CcrRouter_new(load_config.Router.default), None).value,
          warnings |-> {}]

\* CcrConfigManager::generate_default_router_profile: Ok(None) without
\* providers; dangling routes are printed as warnings and nothing else
generate_default_router_profile ==
    IF load_config_result.err # ""
    THEN [err |-> load_config_result.err, value |-> None, warnings |-> {}]
    ELSE LET ccr_config == load_config_result.value[1]
             built == RouterProfile_new("default", ccr_config.Router,
                                        Some(GeneratedDescription))
         IN IF ccr_config.Providers = <<>>
            THEN [err |-> "", value |-> None, warnings |-> {}]
            ELSE [err |-> built.err, value |-> built.value,
                  warnings |-> dangling_routes(ccr_config.Providers,
                                               ccr_config.Router)]

\* The result of one Bootstrap Resolver call: the Profile Store file
\* afterwards, the status or the profile returned, the error, the warnings
\* printed and the steps taken
BootOutcome(store, result, err, value, warnings, steps) ==
    [store |-> store, result |-> result, err |-> err, value |-> value,
     warnings |-> warnings, steps |-> steps]

\* CcrConfigManager::ensure_router_profile_exists
ensure_router_profile_exists(save_ok) ==
    LET local_config == Config_load_unwrap_or_default(profile_store)
        Status(result) ==
            BootOutcome(profile_store, result, "", None, {}, <<"ensure">>)
        Failed(err) == BootOutcome(profile_store, "", err, None, {}, <<"ensure">>)
        generated == generate_default_router_profile
    IN  IF local_config.router # EmptyDir THEN Status("LocalExists")
        ELSE IF ~config_exists THEN Status("NeedCreateProvider")
        ELSE IF load_config_result.err # "" THEN Failed(load_config_result.err)
        ELSE IF load_config_result.value[1].Providers = <<>>
        THEN Status("NeedCreateProvider")
        ELSE IF generated.err # "" THEN Failed(generated.err)
        ELSE IF is_none(generated.value) THEN Status("NeedCreateProvider")
        ELSE LET added == Config_add_router_profile(local_config, "default",
                                                    generated.value[1])
                 saved == Config_save(added.config, save_ok)
             IN IF added.err # "" THEN Failed(added.err)
                ELSE IF saved.err # "" THEN Failed(saved.err)
                ELSE BootOutcome(saved.store, "GeneratedDefault", "", None,
                                 generated.warnings, <<"ensure">>)

\* A slip: every missing name drives the state machine.
drives_bootstrap_any_name(name) == TRUE

\* the names get_router_profile generates a profile for
drives_bootstrap(name) == name = "default"

\* CcrConfigManager::get_router_profile: the local profile when there is one;
\* for "default" the state machine is run, and the lookup repeated after
\* GeneratedDefault; ProfileNotFound otherwise
get_router_profile(name, save_ok) ==
    LET config == Config_load_unwrap_or_default(profile_store)
        first == Config_get_router_profile(config, name)
        ensured == ensure_router_profile_exists(save_ok)
        updated == Config_load(ensured.store)
        second == Config_get_router_profile(updated.value[1], name)
        NotFound(store, warnings, steps) ==
            BootOutcome(store, "", "ProfileNotFound", None, warnings, steps)
    IN  IF first.err = ""
        THEN BootOutcome(profile_store, "Ok", "", first.value, {}, <<"lookup">>)
        ELSE IF ~drives_bootstrap(name)
        THEN NotFound(profile_store, {}, <<"lookup">>)
        ELSE IF ensured.err # ""
        THEN BootOutcome(ensured.store, "", ensured.err, None, {},
                         <<"lookup", "ensure">>)
        ELSE IF ensured.result = "GeneratedDefault"
        THEN IF updated.err # ""
             THEN BootOutcome(ensured.store, "", updated.err, None,
                              ensured.warnings, <<"lookup", "ensure", "load">>)
             ELSE IF second.err # ""
             THEN BootOutcome(ensured.store, "", second.err, None,
                              ensured.warnings,
                              <<"lookup", "ensure", "load", "lookup">>)
             ELSE BootOutcome(ensured.store, "Ok", "", second.value,
                              ensured.warnings,
                              <<"lookup", "ensure", "load", "lookup">>)
        ELSE IF ensured.result = "NeedCreateProvider"
        THEN BootOutcome(ensured.store, "", "Config", None, {},
                         <<"lookup", "ensure">>)
        ELSE NotFound(ensured.store, {}, <<"lookup", "ensure">>)

\* ---- inputs of the Bootstrap Resolver ----

\* a stored router profile the operator added earlier
rpWork == RouterProfile_new("work", rBA, None).value[1]

\* the route set of a document whose default route was never filled in
fBlankRoute == [fHandEdited EXCEPT !.Router = rBlank]

\* a document whose default route names a provider that is not declared,
\* and which sets an optional route
fDangling ==
    [fHandEdited EXCEPT
        !.Router = [rGhost EXCEPT !.background = Some(Route("a", "m2"))]]

\* the Proxy Config files the resolver may find
BootFiles ==
    {None, Some(fHandEdited), Some(to_string_pretty(CcrConfig_default)),
     Some(fBlankRoute), Some(fDangling), Some(Unparseable)}

\* the Profile Store files the resolver may find
BootStores ==
    {None, Some(Config_default),
     Some(StoreDoc(insert(EmptyDir, "x", dOk1), EmptyDir, None)),
     Some(StoreDoc(EmptyDir, insert(EmptyDir, "work", rpWork), Some("work"))),
     Some(Unparseable)}

RouterProfileNames == {"default", "work", "other"}

\* ---- the Bootstrap Resolver as a state machine ----

InitBootstrap ==
    /\ config_file \in BootFiles
    /\ backups = EmptyDir
    /\ now = 0
    /\ last = [op |-> "init", operation |-> "", err |-> "", steps |-> <<>>,
               existed |-> is_some(config_file)]
    /\ writes = 0
    /\ InitStore
    /\ profile_store \in BootStores
    /\ boot_last = [op |-> "init", name |-> "", result |-> "", value |-> None,
                    steps |-> <<>>]
    /\ InitProcs
    /\ InitTrail

\* One call: the Profile Store file is what the call left; the Proxy Config
\* file is only read.
BootCall(op, name, outcome) ==
    /\ profile_store' = outcome.store
    /\ boot_last' = [op |-> op, name |-> name,
                     result |-> IF outcome.err # "" THEN outcome.err
                                ELSE outcome.result,
                     value |-> outcome.value, steps |-> outcome.steps]
    /\ UNCHANGED <<fileVars, storeVars, procVars, trailVars>>

EnsureRouterProfileExists ==
    \E save_ok \in BOOLEAN :
        BootCall("ensure_router_profile_exists", "",
                 ensure_router_profile_exists(save_ok))

GetRouterProfile ==
    \E name \in RouterProfileNames, save_ok \in BOOLEAN :
        BootCall("get_router_profile", name, get_router_profile(name, save_ok))

\* The operator or the proxy rewrites the Proxy Config file between two calls.
EditProxyConfig ==
    /\ config_file' \in BootFiles
    /\ config_file' # config_file
    /\ UNCHANGED <<backups, now, last, writes, storeVars, bootVars, procVars,
                   trailVars>>

NextBootstrap ==
    \/ EnsureRouterProfileExists
    \/ GetRouterProfile
    \/ EditProxyConfig

SpecBootstrap == InitBootstrap /\ [][NextBootstrap]_vars

\* ---------------------------------------------------------------------------
\* Two invocations of the tool on the same Proxy Config file, step by step:
\* load and check, backup, then std::fs::write, which truncates the file
\* before it writes the new content
\* ---------------------------------------------------------------------------

\* The file between the truncation and the end of the write, or after two
\* writes ran into each other: serde_json::from_str rejects it
Truncated == Unparseable

\* a route set over provider a that differs from the one on disk
rThinkA == [rA EXCEPT !.think = Some(Route("a", "m1"))]

\* what an invocation was asked to do
Request(op, provider, operation, router) ==
    [op |-> op, provider |-> provider, operation |-> operation, router |-> router]

Requests ==
    {Request("update_provider_only", pB1, "Add", rA),
     Request("update_provider_only", pA2, "Update", rA),
     Request("update_router_only", pA1, "", rThinkA)}

\* The part of update_router_only and update_provider_only before the backup:
\* the document to write, or the error
planned(request) ==
    IF load_config_result.err # "" THEN Refused(load_config_result.err, <<"load">>)
    ELSE IF request.op = "update_provider_only"
    THEN provider_change(load_config, request.provider, request.operation)
    ELSE IF CcrRouter_validate(request.router) # ""
    THEN Refused(CcrRouter_validate(request.router), <<"validate">>)
    ELSE IF dangling_routes(load_config.Providers, request.router) # {}
    THEN Refused("InvalidConfig", <<"validate", "load", "check">>)
    ELSE Changed([load_config EXCEPT !.Router = request.router],
                 <<"validate", "load", "check">>)

\* the complete documents a step replaces
replaced == IF is_some(config_file) /\ parses(config_file[1])
            THEN {config_file[1]} ELSE {}

InitProc ==
    /\ config_file \in InitialFiles
    /\ backups = EmptyDir
    /\ now = 0
    /\ last = [op |-> "init", operation |-> "", err |-> "", steps |-> <<>>,
               existed |-> is_some(config_file)]
    /\ writes = 0
    /\ InitStore
    /\ InitRest

\* load_config and the checks: the invocation keeps the document it will write
Load(p) ==
    /\ pc[p] = "idle"
    /\ \E request \in Requests :
           IF planned(request).err # ""
           THEN pc' = [pc EXCEPT ![p] = "done"] /\ plan' = plan
           ELSE /\ pc' = [pc EXCEPT ![p] = "loaded"]
                /\ plan' = [plan EXCEPT ![p] = Some(planned(request).config)]
    /\ UNCHANGED <<fileVars, storeVars, bootVars, trailVars, overwritten>>

\* if self.config_path.exists() { self.create_backup()?; }
Backup(p) ==
    /\ pc[p] = "loaded"
    /\ \E copy_ok \in BOOLEAN :
           IF is_none(config_file)
           THEN pc' = [pc EXCEPT ![p] = "backed"] /\ backups' = backups
           ELSE IF create_backup(copy_ok).err # ""
           THEN pc' = [pc EXCEPT ![p] = "done"] /\ backups' = backups
           ELSE /\ pc' = [pc EXCEPT ![p] = "backed"]
                /\ backups' = create_backup(copy_ok).backups
    /\ UNCHANGED <<config_file, now, last, writes, storeVars, bootVars, trailVars, plan,
                   overwritten>>

\* std::fs::write, first half: the file is created or truncated
Truncate(p) ==
    /\ pc[p] = "backed"
    /\ pc' = [pc EXCEPT ![p] = "writing"]
    /\ config_file' = Some(Truncated)
    /\ overwritten' = overwritten \cup replaced
    /\ UNCHANGED <<backups, now, last, writes, storeVars, bootVars, trailVars, plan>>

\* std::fs::write, second half: the content is written.  When the other
\* invocation wrote in between, the bytes of the two writes may mix.
WriteAll(p) ==
    /\ pc[p] = "writing"
    /\ pc' = [pc EXCEPT ![p] = "done"]
    /\ config_file' \in
           IF config_file = Some(Truncated)
           THEN {Some(to_string_pretty(plan[p][1]))}
           ELSE {Some(to_string_pretty(plan[p][1])), Some(Truncated)}
    /\ overwritten' = overwritten \cup replaced
    /\ UNCHANGED <<backups, now, last, writes, storeVars, bootVars, trailVars, plan>>

\* the process dies between two steps of its operation
Crash(p) ==
    /\ pc[p] \in {"loaded", "backed", "writing"}
    /\ pc' = [pc EXCEPT ![p] = "crashed"]
    /\ UNCHANGED <<fileVars, storeVars, bootVars, trailVars, plan, overwritten>>

NextProc ==
    \/ \E p \in Procs : Load(p)
    \/ \E p \in Procs : Backup(p)
    \/ \E p \in Procs : Truncate(p)
    \/ \E p \in Procs : WriteAll(p)
    \/ \E p \in Procs : Crash(p)
    \/ Tick

SpecProc == InitProc /\ [][NextProc]_vars

\* ---------------------------------------------------------------------------
\* CcrManager::generate_ccr_config: the Proxy Config file written from a
\* stored profile
\* ---------------------------------------------------------------------------

\* CcrProfile::to_ccr_config: Providers, Router and the optional settings that
\* are set; description and created_at are not part of the document
to_ccr_config(profile) ==
    [CcrConfig_default EXCEPT
        !.Providers = profile.providers,
        !.Router = profile.router,
        !.API_TIMEOUT_MS = profile.api_timeout_ms,
        !.PROXY_URL = profile.proxy_url,
        !.LOG = profile.log,
        !.APIKEY = profile.api_key,
        !.HOST = profile.host]

\* CcrManager::generate_ccr_config: a failing backup is printed and the file
\* is written all the same; the profile is not validated
generate_ccr_config(profile, copy_ok) ==
    LET b == create_backup(copy_ok)
        dir == IF is_some(config_file) /\ b.err = "" THEN b.backups ELSE backups
        steps == IF is_some(config_file) THEN <<"backup", "write">> ELSE <<"write">>
    IN Outcome(Some(to_string_pretty(to_ccr_config(profile))), dir, "", steps)

GenerateCcrConfig ==
    \E profile \in CcrProfileInputs, copy_ok \in BOOLEAN :
        Write("generate_ccr_config", "", generate_ccr_config(profile, copy_ok))

NextGenerate ==
    \/ Tick
    \/ SaveConfig
    \/ GenerateCcrConfig

SpecGenerate == Init /\ [][NextGenerate]_vars

\* ---------------------------------------------------------------------------
\* The backup trail on its own: CcrManager's create_backup, delete_backup and
\* cleanup_old_backups, with a backup directory that may be missing
\* ---------------------------------------------------------------------------

\* A slip: the backup directory is not created before the copy.
CcrManager_create_backup_no_mkdir(copy_ok) ==
    IF is_some(config_file) /\ ~backup_dir_exists
    THEN [outcome |-> Outcome(config_file, backups, "Io", <<"check", "backup">>),
          dir_exists |-> FALSE]
    ELSE [outcome |-> create_backup(copy_ok), dir_exists |-> backup_dir_exists]

\* CcrManager::create_backup: with a file to copy, the directory is created
\* when it is missing, then the file is copied
CcrManager_create_backup(copy_ok) ==
    [outcome |-> IF is_some(config_file) /\ ~backup_dir_exists
                 THEN [create_backup(copy_ok) EXCEPT
                          !.steps = <<"check", "mkdir", "backup">>]
                 ELSE create_backup(copy_ok),
     dir_exists |-> backup_dir_exists \/ is_some(config_file)]

\* the Proxy Config files the trail is taken from
TrailFiles == {None, Some(fHandEdited), Some(to_string_pretty(cValid))}

InitTrailSpec ==
    /\ config_file \in TrailFiles
    /\ backups = EmptyDir
    /\ now = 0
    /\ last = [op |-> "init", operation |-> "", err |-> "", steps |-> <<>>,
               existed |-> is_some(config_file)]
    /\ writes = 0
    /\ InitStore
    /\ InitBoot
    /\ InitProcs
    /\ backup_dir_exists \in BOOLEAN

ManagerCreateBackup ==
    \E copy_ok \in BOOLEAN :
        LET made == CcrManager_create_backup(copy_ok)
        IN /\ config_file' = made.outcome.file
           /\ backups' = made.outcome.backups
           /\ backup_dir_exists' = made.dir_exists
           /\ last' = [op |-> "create_backup", operation |-> "",
                       err |-> made.outcome.err, steps |-> made.outcome.steps,
                       existed |-> is_some(config_file)]
           /\ UNCHANGED <<now, writes, storeVars, bootVars, procVars>>

\* The Proxy Config file is rewritten, created or deleted between two calls.
EditProxyFile ==
    /\ config_file' \in TrailFiles
    /\ config_file' # config_file
    /\ UNCHANGED <<backups, now, last, writes, storeVars, restVars>>

\* The operator deletes the backup directory.
RemoveBackupDir ==
    /\ backup_dir_exists
    /\ backup_dir_exists' = FALSE
    /\ backups' = EmptyDir
    /\ UNCHANGED <<config_file, now, last, writes, storeVars, bootVars, procVars>>

NextTrail ==
    \/ Tick
    \/ ManagerCreateBackup
    \/ DeleteBackup
    \/ CleanupOldBackups
    \/ EditProxyFile
    \/ RemoveBackupDir

SpecTrail == InitTrailSpec /\ [][NextTrail]_vars

\* ---------------------------------------------------------------------------
\* The provider list under update_provider_only, update_providers_only and
\* save_config, the caller of update_providers_only being free to pass any
\* list
\* ---------------------------------------------------------------------------

\* the lists a caller may pass: those above, and one with a name twice
ProvidersLists == ProvidersInputs \cup {<<pA1, pA2>>}

UpdateProvidersList ==
    \E providers \in ProvidersLists, copy_ok \in BOOLEAN :
        Write("update_providers_only", "",
              update_providers_only(providers, copy_ok))

NextProviders ==
    \/ Tick
    \/ SaveConfig
    \/ UpdateProviderOnly
    \/ UpdateProvidersList

SpecProviders == Init /\ [][NextProviders]_vars

\* ---------------------------------------------------------------------------
\* The JSON text of a document: what the derived Serialize and Deserialize of
\* CcrProvider, CcrRouter and the document write and read.  A JSON object is a
\* function from its keys to their values.
\* ---------------------------------------------------------------------------

\* serde_json::Value::Null
JsonNull == [null |-> TRUE]

\* #[serde(rename = "...")] on the variants of ProviderType
ProviderType_rename ==
    [OpenAI |-> "openai", OpenRouter |-> "openrouter", DeepSeek |-> "deepseek",
     Gemini |-> "gemini", Qwen |-> "qwen", Custom |-> "custom"]

ProviderType_from(text) ==
    CHOOSE v \in DOMAIN ProviderType_rename : ProviderType_rename[v] = text

\* #[serde(rename = "...")] on the fields of CcrRouter
CcrRouter_rename ==
    [default |-> "default", background |-> "background", think |-> "think",
     long_context |-> "longContext",
     long_context_threshold |-> "longContextThreshold",
     web_search |-> "webSearch"]

\* A slip: the keys are looked up under the names of the fields.
CcrRouter_key_field_name(f) == f

\* the key under which field f of CcrRouter is written and read
CcrRouter_key(f) == CcrRouter_rename[f]

\* Serialize for CcrRouter: default always, an optional field only when Some
\* (skip_serializing_if = "Option::is_none")
CcrRouter_serialize(r) ==
    LET present == {f \in RouterFields : f = "default" \/ is_some(r[f])}
    IN [k \in {CcrRouter_rename[f] : f \in present} |->
           LET f == CHOOSE g \in present : CcrRouter_rename[g] = k
           IN IF f = "default" THEN r.default ELSE r[f][1]]

\* Deserialize for CcrRouter: a missing optional key is None
CcrRouter_deserialize(obj) ==
    [f \in RouterFields |->
        IF f = "default" THEN obj["default"]
        ELSE IF CcrRouter_key(f) \in DOMAIN obj
             THEN Some(obj[CcrRouter_key(f)]) ELSE None]

\* Serialize for CcrProvider
CcrProvider_serialize(p) ==
    LET keys == {"name", "api_base_url", "api_key", "models"}
                  \cup (IF is_some(p.transformer) THEN {"transformer"} ELSE {})
                  \cup (IF is_some(p.provider_type) THEN {"provider_type"} ELSE {})
    IN [k \in keys |->
           IF k = "transformer" THEN p.transformer[1]
           ELSE IF k = "provider_type" THEN ProviderType_rename[p.provider_type[1]]
           ELSE p[k]]

\* Deserialize for CcrProvider: a missing optional key is None, and so is a
\* transformer that is the JSON null
CcrProvider_deserialize(obj) ==
    [name |-> obj["name"], api_base_url |-> obj["api_base_url"],
     api_key |-> obj["api_key"], models |-> obj["models"],
     transformer |->
        IF "transformer" \in DOMAIN obj /\ obj["transformer"] # JsonNull
        THEN Some(obj["transformer"]) ELSE None,
     provider_type |->
        IF "provider_type" \in DOMAIN obj
        THEN Some(ProviderType_from(obj["provider_type"])) ELSE None]

\* the optional settings of the document
OptionalSettings ==
    {"APIKEY", "PROXY_URL", "LOG", "API_TIMEOUT_MS", "HOST", "transformers",
     "CUSTOM_ROUTER_PATH"}

\* Serialize for the document: Providers in their order, Router, and the
\* optional settings that are Some
CcrConfig_serialize(config) ==
    LET keys == {"Providers", "Router"}
                  \cup {f \in OptionalSettings : is_some(config[f])}
    IN [k \in keys |->
           IF k = "Providers"
           THEN [i \in 1..Len(config.Providers) |->
                    CcrProvider_serialize(config.Providers[i])]
           ELSE IF k = "Router" THEN CcrRouter_serialize(config.Router)
           ELSE config[k][1]]

\* Deserialize for the document
CcrConfig_deserialize(obj) ==
    [f \in OptionalSettings \cup {"Providers", "Router"} |->
        IF f = "Providers"
        THEN [i \in 1..Len(obj["Providers"]) |->
                 CcrProvider_deserialize(obj["Providers"][i])]
        ELSE IF f = "Router" THEN CcrRouter_deserialize(obj["Router"])
        ELSE IF f \in DOMAIN obj THEN Some(obj[f]) ELSE None]

\* ProviderType::generate_transformer for OpenRouter
tOpenRouter == [use |-> <<"openrouter">>]

pRouted ==
    [pA1 EXCEPT !.api_key = "k3", !.transformer = Some(tOpenRouter),
                !.provider_type = Some("OpenRouter")]

\* every route and every threshold set
rFull ==
    [default |-> Route("a", "m1"), background |-> Some(Route("b", "m1")),
     think |-> Some(Route("a", "m1")), long_context |-> Some(Route("b", "m1")),
     long_context_threshold |-> Some(DefaultLongContextThreshold),
     web_search |-> Some(Route("a", "m1"))]

\* no optional field set at all
rBare == [rA EXCEPT !.long_context_threshold = None]

cFull ==
    [APIKEY |-> Some("k9"), PROXY_URL |-> Some("p1"), LOG |-> Some(FALSE),
     API_TIMEOUT_MS |-> Some(600000), HOST |-> Some("h1"),
     Providers |-> <<pRouted, pB1>>, Router |-> rFull,
     transformers |-> Some(<<tOpenRouter>>), CUSTOM_ROUTER_PATH |-> Some("r.js")]

cBare == [CcrConfig_default EXCEPT !.Providers = <<pB1, pA1>>, !.Router = rBare]

cSwapped == [cBare EXCEPT !.Providers = <<pA1, pB1>>]

\* the documents handed to save_config: valid ones of every shape, and the
\* invalid ones
Documents == ConfigInputs \cup {cFull, cBare, cSwapped}

SaveDocument ==
    \E config \in Documents, copy_ok \in BOOLEAN :
        Write("save_config", "", save_config(config, copy_ok))

NextRoundTrip ==
    \/ Tick
    \/ SaveDocument

SpecRoundTrip == Init /\ [][NextRoundTrip]_vars

\* ---------------------------------------------------------------------------
\* Route sets of every shape handed to update_router_only
\* ---------------------------------------------------------------------------

\* "a,m1,x": two commas
TwoCommas == Route("a", "m1") \o <<",", "x">>

rTwoCommas == CcrRouter_new(TwoCommas)
rOptTwoCommas == [rA EXCEPT !.background = Some(TwoCommas)]

RouteSets == RouterInputs \cup {rTwoCommas, rOptTwoCommas, rThinkA}

UpdateRouteSet ==
    \E router \in RouteSets, copy_ok \in BOOLEAN :
        Write("update_router_only", "", update_router_only(router, copy_ok))

NextRoutes ==
    \/ Tick
    \/ UpdateRouteSet

SpecRoutes == Init /\ [][NextRoutes]_vars

\* ---------------------------------------------------------------------------
\* The read-only diagnostic validate_router_references
\* ---------------------------------------------------------------------------

\* CcrRouter::get_all_routes: the names the routes are paired with
get_all_route_names(r) ==
    LET opt(f, name) == IF is_some(r[f]) THEN <<name>> ELSE <<>>
    IN <<"default">> \o opt("background", "background") \o opt("think", "think")
          \o opt("long_context", "longContext") \o opt("web_search", "webSearch")

\* A slip: the loop stops at the first route that names no declared provider.
collect_first(names, routes, declared) ==
    LET bad == {i \in 1..Len(routes) : split_first(routes[i]) \notin declared}
    IN IF bad = {} THEN <<>>
       ELSE LET i == CHOOSE k \in bad : \A j \in bad : k <= j
            IN <<[route_name |-> names[i], provider_name |-> split_first(routes[i])]>>

\* the loop of validate_router_references: one message for every route whose
\* text before the first comma is not a declared name, in the order of the routes
collect_all(names, routes, declared) ==
    LET F[i \in 0..Len(routes)] ==
            IF i = 0 THEN <<>>
            ELSE IF split_first(routes[i]) \notin declared
                 THEN Append(F[i - 1], [route_name |-> names[i],
                                        provider_name |-> split_first(routes[i])])
                 ELSE F[i - 1]
    IN F[Len(routes)]

\* CcrConfigManager::validate_router_references
validate_router_references ==
    LET config == load_config
    IN Returning(Outcome(config_file, backups, "", <<"load">>),
                 collect_all(get_all_route_names(config.Router),
                             get_all_routes(config.Router),
                             provider_names(config.Providers)))

\* a document none of whose five routes names a declared provider
fNoProviders == [fHandEdited EXCEPT !.Providers = <<>>, !.Router = rFull]

\* a document with a blank optional route
fOptBlank == [fHandEdited EXCEPT !.Router = rOptBlank]

\* the Proxy Config files the diagnostic may find
DiagnosedFiles ==
    {None, Some(fHandEdited), Some(fDangling), Some(fNoProviders), Some(fOptBlank)}

InitDiagnose ==
    /\ config_file \in DiagnosedFiles
    /\ backups = EmptyDir
    /\ now = 0
    /\ last = [op |-> "init", operation |-> "", err |-> "", steps |-> <<>>,
               existed |-> is_some(config_file)]
    /\ writes = 0
    /\ InitStore
    /\ InitRest

ValidateRouterReferences ==
    /\ Call("validate_router_references", "", validate_router_references)
    /\ UNCHANGED writes

NextDiagnose ==
    \/ Tick
    \/ UpdateRouteSet
    \/ ValidateRouterReferences

SpecDiagnose == InitDiagnose /\ [][NextDiagnose]_vars

\* ---------------------------------------------------------------------------
\* The lookups of the Profile Store (&self methods) among its mutators
\* ---------------------------------------------------------------------------

\* Err(..) of a lookup
LookupFailed(err) == [err |-> err, value |-> None]

\* Config::get_ccr_profile
get_ccr_profile(name) ==
    IF name \in DOMAIN groups_ccr
    THEN [err |-> "", value |-> Some(groups_ccr[name])]
    ELSE LookupFailed("ProfileNotFound")

\* the default pointer of a group: default_profile.as_ref().and_then(|dp| dp.<group>)
default_pointer(group) ==
    IF is_some(default_profile) THEN default_profile[1][group] ELSE None

\* A slip: an unset pointer is reported as a missing profile.
get_default_direct_profile_not_found ==
    LET default_name == default_pointer("direct")
    IN IF is_none(default_name) THEN LookupFailed("ProfileNotFound")
       ELSE IF get_direct_profile(default_name[1]).err # ""
            THEN LookupFailed(get_direct_profile(default_name[1]).err)
            ELSE [err |-> "",
                  value |-> Some(<<default_name[1],
                                   get_direct_profile(default_name[1]).value[1]>>)]

\* Config::get_default_direct_profile
get_default_direct_profile ==
    LET default_name == default_pointer("direct")
    IN IF is_none(default_name) THEN LookupFailed("Config")
       ELSE IF get_direct_profile(default_name[1]).err # ""
            THEN LookupFailed(get_direct_profile(default_name[1]).err)
            ELSE [err |-> "",
                  value |-> Some(<<default_name[1],
                                   get_direct_profile(default_name[1]).value[1]>>)]

\* Config::get_default_ccr_profile
get_default_ccr_profile ==
    LET default_name == default_pointer("ccr")
    IN IF is_none(default_name) THEN LookupFailed("Config")
       ELSE IF get_ccr_profile(default_name[1]).err # ""
            THEN LookupFailed(get_ccr_profile(default_name[1]).err)
            ELSE [err |-> "",
                  value |-> Some(<<default_name[1],
                                   get_ccr_profile(default_name[1]).value[1]>>)]

\* A lookup: its result is reported, the store is only read.
Lookup(op, name, result) ==
    /\ store_last' = [op |-> op, name |-> name, err |-> result.err]
    /\ UNCHANGED <<groups_direct, groups_ccr, default_profile>>
    /\ UNCHANGED <<fileVars, legacyVars, restVars>>

GetDirectProfile ==
    \E name \in ProfileNames :
        Lookup("get_direct_profile", name, get_direct_profile(name))

GetCcrProfile ==
    \E name \in ProfileNames :
        Lookup("get_ccr_profile", name, get_ccr_profile(name))

GetDefaultDirectProfile ==
    Lookup("get_default_direct_profile", "", get_default_direct_profile)

GetDefaultCcrProfile ==
    Lookup("get_default_ccr_profile", "", get_default_ccr_profile)

NextLookup ==
    \/ AddDirectProfile
    \/ AddCcrProfile
    \/ RemoveDirectProfile
    \/ RemoveCcrProfile
    \/ SetDefaultDirect
    \/ SetDefaultCcr
    \/ SetDefault
    \/ GetDirectProfile
    \/ GetCcrProfile
    \/ GetDefaultDirectProfile
    \/ GetDefaultCcrProfile

SpecLookup == InitProfileStore /\ [][NextLookup]_vars

\* ---------------------------------------------------------------------------
\* The listings of the Profile Store among its mutators
\* ---------------------------------------------------------------------------

\* HashMap::iter(): every key once, in an order the map chooses
iter(map) ==
    {order \in [1..Cardinality(DOMAIN map) -> DOMAIN map] :
        \A i, j \in DOMAIN order : order[i] = order[j] => i = j}

\* A slip: every entry is tagged as soon as a default is set.
is_default_any(default_name, name) == is_some(default_name)

\* let is_default = default_name == Some(name);
is_default(default_name, name) == default_name = Some(name)

\* Config::list_direct_profiles, the map iterated in the given order
list_direct_profiles(order) ==
    [i \in DOMAIN order |->
        [name |-> order[i], profile |-> groups_direct[order[i]],
         is_default |-> is_default(default_pointer("direct"), order[i])]]

\* Config::list_ccr_profiles, the map iterated in the given order
list_ccr_profiles(order) ==
    [i \in DOMAIN order |->
        [name |-> order[i], profile |-> groups_ccr[order[i]],
         is_default |-> is_default(default_pointer("ccr"), order[i])]]

\* a listing: the store is only read; the number of entries tagged default is
\* reported in place of an error
Listing(op, listed) ==
    /\ store_last' = [op |-> op, name |-> "",
                      err |-> IF \E i \in DOMAIN listed : listed[i].is_default
                              THEN "" ELSE "untagged"]
    /\ UNCHANGED <<groups_direct, groups_ccr, default_profile>>
    /\ UNCHANGED <<fileVars, legacyVars, restVars>>

ListDirectProfiles ==
    \E order \in iter(groups_direct) :
        Listing("list_direct_profiles", list_direct_profiles(order))

ListCcrProfiles ==
    \E order \in iter(groups_ccr) :
        Listing("list_ccr_profiles", list_ccr_profiles(order))

NextList ==
    \/ AddDirectProfile
    \/ AddCcrProfile
    \/ RemoveDirectProfile
    \/ RemoveCcrProfile
    \/ RemoveProfile
    \/ SetDefaultDirect
    \/ SetDefaultCcr
    \/ SetDefault
    \/ ListDirectProfiles
    \/ ListCcrProfiles

SpecList == InitProfileStore /\ [][NextList]_vars

\* ---------------------------------------------------------------------------
\* Providers of every shape handed to update_providers_only
\* ---------------------------------------------------------------------------

\* the variants of enum ProviderType
ProviderTypes == DOMAIN ProviderType_rename

UrlGemini == <<"https://", "host", "/v1beta/models/">>
UrlPlain == <<"http://", "host">>
UrlNoScheme == <<"host", "/chat/completions">>
UrlBlank == <<" ">>

ProviderShapes ==
    [name : {<<"a">>, <<" ">>},
     api_base_url : {UrlChat, UrlGemini, UrlPlain, UrlNoScheme, UrlBlank},
     api_key : {"k1"},
     models : {<<>>, <<"m1">>},
     transformer : {None},
     provider_type : {None} \cup {Some(t) : t \in ProviderTypes}]

\* the shapes update_providers_only is called with
ShapeSamples ==
    {p \in ProviderShapes :
        \/ /\ p.name = <<"a">> /\ p.models = <<"m1">>
           /\ p.api_base_url \in {UrlChat, UrlGemini, UrlPlain}
           /\ p.provider_type \in {None, Some("Custom"), Some("Gemini"), Some("OpenAI")}
        \/ /\ p.api_base_url = UrlChat /\ p.provider_type = Some("OpenAI")
           /\ (p.name = <<" ">> \/ p.models = <<>>)}

UpdateProviderShapes ==
    \E provider \in ShapeSamples, copy_ok \in BOOLEAN :
        Write("update_providers_only", "",
              update_providers_only(<<provider>>, copy_ok))

NextShapes ==
    \/ Tick
    \/ UpdateProviderShapes

SpecShapes == Init /\ [][NextShapes]_vars

\* ---------------------------------------------------------------------------
\* use_router_profile: the router default of the Profile Store and the route set
\* of the Proxy Config document
\* ---------------------------------------------------------------------------

\* Config::set_default_router: like set_default_ccr, on groups.router
Config_set_default_router(config, name) ==
    IF name \notin DOMAIN config.router
    THEN [err |-> "ProfileNotFound", config |-> config]
    ELSE [err |-> "", config |-> [config EXCEPT !.default_router = Some(name)]]

\* what a call that touches both documents leaves behind
UseOutcome(store, files, err, steps) ==
    [store |-> store, file |-> files.file, backups |-> files.backups,
     err |-> err, steps |-> steps]

\* CcrConfigManager::use_router_profile: load, look the profile up, set it as
\* the default, save the store, then apply_router_profile (update_router_only)
use_router_profile(name, save_ok, copy_ok) ==
    LET untouched == [file |-> config_file, backups |-> backups]
        loaded == Config_load(profile_store)
        found == Config_get_router_profile(loaded.value[1], name)
        marked == Config_set_default_router(loaded.value[1], name)
        saved == Config_save(marked.config, save_ok)
        applied == update_router_only(found.value[1].router, copy_ok)
    IN  IF loaded.err # ""
        THEN UseOutcome(profile_store, untouched, loaded.err, <<"load">>)
        ELSE IF found.err # ""
        THEN UseOutcome(profile_store, untouched, found.err, <<"load", "lookup">>)
        ELSE IF marked.err # ""
        THEN UseOutcome(profile_store, untouched, marked.err,
                        <<"load", "lookup", "set_default">>)
        ELSE IF saved.err # ""
        THEN UseOutcome(profile_store, untouched, saved.err,
                        <<"load", "lookup", "set_default", "save">>)
        ELSE UseOutcome(saved.store, applied, applied.err,
                        <<"load", "lookup", "set_default", "save", "apply">>)

\* a router profile whose routes all name provider a
rpSolo == RouterProfile_new("solo", rThinkA, None).value[1]

\* stores holding the router profiles work (providers a and b) and solo (a)
UseStores ==
    {None,
     Some(StoreDoc(EmptyDir, insert(EmptyDir, "work", rpWork), Some("work"))),
     Some(StoreDoc(EmptyDir,
                   insert(insert(EmptyDir, "work", rpWork), "solo", rpSolo),
                   Some("solo")))}

\* a document that declares the providers a and b
fTwoProviders == [fHandEdited EXCEPT !.Providers = <<pA1, pB1>>]

InitUse ==
    /\ config_file \in {None, Some(fHandEdited), Some(fTwoProviders)}
    /\ backups = EmptyDir
    /\ now = 0
    /\ last = [op |-> "init", operation |-> "", err |-> "", steps |-> <<>>,
               existed |-> is_some(config_file)]
    /\ writes = 0
    /\ InitStore
    /\ profile_store \in UseStores
    /\ boot_last = [op |-> "init", name |-> "", result |-> "", value |-> None,
                    steps |-> <<>>]
    /\ InitProcs
    /\ InitTrail

UseRouterProfile ==
    \E name \in {"work", "solo", "other"}, save_ok \in BOOLEAN, copy_ok \in BOOLEAN :
        LET out == use_router_profile(name, save_ok, copy_ok)
        IN /\ writes < MaxWrites
           /\ profile_store' = out.store
           /\ config_file' = out.file
           /\ backups' = out.backups
           /\ boot_last' = [op |-> "use_router_profile", name |-> name,
                            result |-> IF out.err # "" THEN out.err ELSE "Ok",
                            value |-> None, steps |-> out.steps]
           /\ writes' = IF out.file # config_file THEN writes + 1 ELSE writes
           /\ UNCHANGED <<now, last, storeVars, procVars, trailVars>>

NextUse ==
    \/ Tick
    \/ UseRouterProfile

SpecUse == InitUse /\ [][NextUse]_vars

(***************************************************************************)
(* Vocabulary of the claims about the Proxy Config document.               *)
(***************************************************************************)
\* The document on disk as the engine reads it (its declared fields).
on_disk == from_str(config_file[1])

\* The settings of a document other than Providers and Router.
OtherFields == {"APIKEY", "PROXY_URL", "LOG", "API_TIMEOUT_MS", "HOST",
                "transformers", "CUSTOM_ROUTER_PATH"}
same_other_fields(d, e) == \A f \in OtherFields : d[f] = e[f]

\* A route resolves when the text before its first comma is a provider's name.
resolves(route, providers) ==
    \E i \in 1..Len(providers) : providers[i].name = split_first(route)

\* No route of the document, default or optional, is dangling.
all_routes_resolve(d) ==
    /\ resolves(d.Router.default, d.Providers)
    /\ \A f \in {"background", "think", "long_context", "web_search"} :
           is_some(d.Router[f]) => resolves(d.Router[f][1], d.Providers)

\* A route set is malformed when its default is blank or has no comma, or a
\* present, non-blank optional route has no comma.
malformed(r) ==
    \/ trim_is_empty(r.default)
    \/ ~contains(r.default, ",")
    \/ \E f \in {"background", "think", "long_context", "web_search"} :
           is_some(r[f]) /\ ~trim_is_empty(r[f][1]) /\ ~contains(r[f][1], ",")

ReconcilerOps == {"save_config", "update_router_only", "update_provider_only",
                  "update_providers_only"}

\* Position of the first / last occurrence of a step (0 when absent).
first_at(steps, step) ==
    IF contains(steps, step)
    THEN CHOOSE i \in 1..Len(steps) :
             steps[i] = step /\ \A j \in 1..(i - 1) : steps[j] # step
    ELSE 0
last_at(steps, step) ==
    IF contains(steps, step)
    THEN CHOOSE i \in 1..Len(steps) :
             steps[i] = step /\ \A j \in (i + 1)..Len(steps) : steps[j] # step
    ELSE 0

(***************************************************************************)
(* C1.  Referential integrity gate.                                        *)
(***************************************************************************)
\* C1 as claimed: no successful save_config, update_provider_only,
\* update_providers_only or update_router_only leaves a document on disk in which
\* a route's provider segment names no provider.  Refuted: update_provider_only
\* and update_providers_only check no cross references.
C1_IntegrityAllWrites ==
    (last.op \in ReconcilerOps /\ last.err = "") => all_routes_resolve(on_disk)

\* C1: after a successful save_config or update_router_only, every route of the
\* document on disk has a provider segment that names one of its providers.
C1_IntegrityGate ==
    (last.op \in {"save_config", "update_router_only"} /\ last.err = "")
        => all_routes_resolve(on_disk)

\* update_router_only has replaced the route set of a two-provider document
C1_Witness ==
    /\ last.op = "update_router_only"
    /\ last.err = ""
    /\ on_disk.Router = rBA
    /\ Len(on_disk.Providers) = 2

(***************************************************************************)
(* C2.  validate, then backup (if the file exists), then write.            *)
(***************************************************************************)
\* C2: in save_config, update_router_only and update_provider_only every
\* validation and existence check precedes the backup, the backup is taken only
\* when the file exists and precedes the write; so a call rejected by a check
\* creates no backup, a call whose backup fails writes nothing, and after a
\* successful write over an existing file the backup named by the current second
\* holds the content the file had before the write.
C2_StepOrder ==
    last.op \in {"save_config", "update_router_only", "update_provider_only"} =>
        LET steps == last.steps
            backup == first_at(steps, "backup")
            write == first_at(steps, "write")
        IN /\ backup # 0 => /\ last_at(steps, "validate") < backup
                            /\ last_at(steps, "check") < backup
                            /\ last_at(steps, "load") < backup
                            /\ last.existed
           /\ write # 0 => /\ backup < write
                           /\ write = Len(steps)
                           /\ last.existed => backup # 0
                           /\ last.err = ""
           /\ last.err \in {"InvalidConfig", "Config"} => backup = 0 /\ write = 0
           /\ last.err = "" => write # 0

C2_StepEffects ==
    (now' = now /\ last'.op \in {"save_config", "update_router_only",
                                 "update_provider_only"}) =>
        /\ last'.err \in {"InvalidConfig", "Config"} =>
               UNCHANGED <<config_file, backups>>
        /\ last'.err = "Io" => UNCHANGED config_file
        /\ (last'.err = "" /\ is_some(config_file)) =>
               /\ backup_filename(now) \in DOMAIN backups'
               /\ backups'[backup_filename(now)] = config_file[1]
        /\ (last'.err = "" /\ is_none(config_file)) => backups' = backups

\* C2: every write of the file comes after a successful validation and, when the
\* file existed, after a backup holding its previous content; a failed step
\* aborts before the write
C2_ValidateBackupWrite == [](C2_StepOrder) /\ [][C2_StepEffects]_vars

\* a successful write over an existing file whose content it changed
C2_Witness ==
    /\ last.op = "update_provider_only"
    /\ last.err = ""
    /\ last.existed
    /\ backup_filename(now) \in DOMAIN backups
    /\ backups[backup_filename(now)] # config_file[1]

others(providers, name) ==
    LET keep == {i \in 1..Len(providers) : providers[i].name # name}
        nth(k) == CHOOSE i \in keep : Cardinality({j \in keep : j < i}) = k - 1
    IN [k \in 1..Cardinality(keep) |-> providers[nth(k)]]

C5_ProviderFailuresChangeNothing ==
    \A provider \in ProviderInputs, operation \in ProviderOperation,
       copy_ok \in BOOLEAN :
        LET outcome == update_provider_only(provider, operation, copy_ok)
            present == \E i \in 1..Len(load_config.Providers) :
                           load_config.Providers[i].name = provider.name
        IN /\ (operation = "Add" /\ present) => outcome.err # ""
           /\ (operation = "Add" /\ present
                  /\ CcrProvider_validate(provider) = "") => outcome.err = "Config"
           /\ (operation \in {"Update", "Remove"} /\ ~present) => outcome.err # ""
           /\ (operation = "Remove" /\ ~present) => outcome.err = "Config"
           /\ (operation = "Remove" /\ present /\ copy_ok) => outcome.err = ""
           /\ outcome.err # "" =>
                  outcome.file = config_file /\ outcome.backups = backups

\* Add of a valid provider was refused because the name exists, after a backup
\* had been made by an earlier write
C5_Witness ==
    /\ last.op = "update_provider_only"
    /\ last.operation = "Add"
    /\ last.err = "Config"
    /\ last.existed
    /\ DOMAIN backups # {}

(***************************************************************************)
(* C6.  Failures of update_router_only and save_config.                    *)
(***************************************************************************)
\* C6: in every reachable state and for every input, update_router_only(r) fails
\* with InvalidConfig when r is malformed or one of its routes does not resolve
\* against the providers on disk, save_config(d) when d.Router is malformed or
\* does not resolve against d.Providers; the failing call changes neither the
\* file nor the backups.
C6_InvalidRoutesRejected ==
    /\ \A router \in RouterInputs, copy_ok \in BOOLEAN :
           LET outcome == update_router_only(router, copy_ok)
           IN (\/ malformed(router)
               \/ ~all_routes_resolve([load_config EXCEPT !.Router = router]))
              => /\ outcome.err = "InvalidConfig"
                 /\ outcome.file = config_file
                 /\ outcome.backups = backups
    /\ \A config \in ConfigInputs, copy_ok \in BOOLEAN :
           LET outcome == save_config(config, copy_ok)
           IN (malformed(config.Router) \/ ~all_routes_resolve(config))
              => /\ outcome.err = "InvalidConfig"
                 /\ outcome.file = config_file
                 /\ outcome.backups = backups

\* a well-formed route set was refused for a provider the file does not declare
C6_Witness ==
    /\ last.op = "update_router_only"
    /\ last.err = "InvalidConfig"
    /\ last.steps = <<"validate", "load", "check">>
    /\ last.existed
    /\ DOMAIN backups # {}

(***************************************************************************)
(* C7, C8: the backup trail.                                               *)
(***************************************************************************)
\* the listed names are strictly descending in their timestamp
newest_first(listed) ==
    \A i, j \in 1..Len(listed) : i < j => listed[i][2] > listed[j][2]

\* C7 as claimed: the number of backups listed equals the number of successful
\* writes made over an existing file, and the list is ordered newest first; two
\* writes within one second of the clock count as two.
C7_BackupPerWrite ==
    /\ Len(list_backups) = writes
    /\ newest_first(list_backups)

\* a backup present before the step is either present afterwards with the same
\* content or was removed by delete_backup or cleanup_old_backups
C8_BackupStep ==
    \A name \in DOMAIN backups :
        IF name \in DOMAIN backups'
        THEN backups'[name] = backups[name]
        ELSE last'.op \in {"delete_backup", "cleanup_old_backups"}

\* C8 as claimed: no operation changes the content of an existing backup, and only
\* delete_backup and cleanup_old_backups remove one.
C8_BackupsImmutable == [][C8_BackupStep]_vars

(***************************************************************************)
(* C9, C10: the Profile Store.                                             *)
(***************************************************************************)
\* the pointer of one group is unset or names a key of the group's collection
points_into(group, map) ==
    is_some(default_profile) /\ is_some(default_profile[1][group])
        => default_profile[1][group][1] \in DOMAIN map

\* C9: whatever add, remove and set_default calls were made on the empty store,
\* failing ones included, a default pointer that is set names a key of its own
\* collection.
C9_DefaultPointerInvariant ==
    /\ points_into("direct", groups_direct)
    /\ points_into("ccr", groups_ccr)

\* the default entry of the direct collection was removed while another entry
\* remained, and the pointer now names a remaining entry
C9_Witness ==
    /\ store_last.op = "remove_direct_profile"
    /\ store_last.err = ""
    /\ DOMAIN groups_direct # {}
    /\ is_some(default_profile)
    /\ is_some(default_profile[1].direct)
    /\ groups_ccr # EmptyDir

\* the outcome is the store as it is
store_unchanged(outcome) ==
    /\ outcome.direct = groups_direct
    /\ outcome.ccr = groups_ccr
    /\ outcome.default_profile = default_profile

\* C10: in every reachable store and for every input, an add under a name that is
\* already a key fails (AppError::Config, "already exists") and an add of a value
\* that its validator rejects fails with InvalidConfig; neither changes a
\* collection or a default pointer.
C10_FailingAddChangesNothing ==
    /\ \A name \in ProfileNames, profile \in DirectProfileInputs :
           LET outcome == add_direct_profile(name, profile)
           IN /\ name \in DOMAIN groups_direct
                    => outcome.err = "Config" /\ store_unchanged(outcome)
              /\ name \notin DOMAIN groups_direct
                   /\ validate_direct_profile(profile) # ""
                    => outcome.err = "InvalidConfig" /\ store_unchanged(outcome)
    /\ \A name \in CcrProfileNames, profile \in CcrProfileInputs :
           LET outcome == add_ccr_profile(name, profile)
           IN /\ name \in DOMAIN groups_ccr
                    => outcome.err = "Config" /\ store_unchanged(outcome)
              /\ name \notin DOMAIN groups_ccr
                   /\ validate_ccr_profile(profile) # ""
                    => outcome.err = "InvalidConfig" /\ store_unchanged(outcome)

\* an add was refused for its value while the store already held entries and a
\* default
C10_Witness ==
    /\ store_last.op = "add_direct_profile"
    /\ store_last.err = "InvalidConfig"
    /\ store_last.name \notin DOMAIN groups_direct
    /\ DOMAIN groups_direct # {}
    /\ is_some(default_profile)
    /\ is_some(default_profile[1].direct)

(***************************************************************************)
(* C11, C12, C13: add and remove on the Profile Store.                     *)
(***************************************************************************)
\* the pointer of one group in a default_profile (None when there is no
\* default_profile at all)
pointer(default, group) == IF is_some(default) THEN default[1][group] ELSE None

\* C11: in every reachable store and for every input, a successful add makes the
\* name the default of its collection exactly when the collection was empty
\* before; on a non-empty collection the default pointer stays as it was; the
\* pointer of the other collection is never touched.
C11_AddPromotesOnlyFirst ==
    /\ \A name \in ProfileNames, profile \in DirectProfileInputs :
           LET outcome == add_direct_profile(name, profile)
           IN outcome.err = "" =>
                  /\ (pointer(outcome.default_profile, "direct") = Some(name))
                         <=> (DOMAIN groups_direct = {})
                  /\ DOMAIN groups_direct # {} =>
                         outcome.default_profile = default_profile
                  /\ pointer(outcome.default_profile, "ccr")
                         = pointer(default_profile, "ccr")
    /\ \A name \in CcrProfileNames, profile \in CcrProfileInputs :
           LET outcome == add_ccr_profile(name, profile)
           IN outcome.err = "" =>
                  /\ (pointer(outcome.default_profile, "ccr") = Some(name))
                         <=> (DOMAIN groups_ccr = {})
                  /\ DOMAIN groups_ccr # {} =>
                         outcome.default_profile = default_profile
                  /\ pointer(outcome.default_profile, "direct")
                         = pointer(default_profile, "direct")

\* a second entry was added and the default is still the first one
C11_Witness ==
    /\ store_last.op = "add_direct_profile"
    /\ store_last.err = ""
    /\ Cardinality(DOMAIN groups_direct) >= 2
    /\ pointer(default_profile, "direct") # Some(store_last.name)
    /\ is_some(pointer(default_profile, "direct"))

\* what C12 says of remove, for each of the two collections
remove_direct_as_claimed ==
    \A name \in ProfileNames :
        \A first_key \in keys_next(remove(groups_direct, name)) :
            LET outcome == remove_direct_profile(name, first_key)
                was_default == pointer(default_profile, "direct") = Some(name)
                default_now == pointer(outcome.default_profile, "direct")
            IN /\ name \notin DOMAIN groups_direct =>
                      /\ outcome.err = "ProfileNotFound"
                      /\ store_unchanged(outcome)
               /\ name \in DOMAIN groups_direct =>
                      /\ outcome.err = ""
                      /\ DOMAIN outcome.direct = DOMAIN groups_direct \ {name}
                      /\ \A n \in DOMAIN outcome.direct :
                             outcome.direct[n] = groups_direct[n]
                      /\ outcome.ccr = groups_ccr
                      /\ was_default =>
                             /\ is_none(default_now) <=> DOMAIN outcome.direct = {}
                             /\ is_some(default_now) =>
                                    default_now[1] \in DOMAIN outcome.direct
                      /\ ~was_default =>
                             outcome.default_profile = default_profile

remove_ccr_as_claimed ==
    \A name \in ProfileNames :
        \A first_key \in keys_next(remove(groups_ccr, name)) :
            LET outcome == remove_ccr_profile(name, first_key)
                was_default == pointer(default_profile, "ccr") = Some(name)
                default_now == pointer(outcome.default_profile, "ccr")
            IN /\ name \notin DOMAIN groups_ccr =>
                      /\ outcome.err = "ProfileNotFound"
                      /\ store_unchanged(outcome)
               /\ name \in DOMAIN groups_ccr =>
                      /\ outcome.err = ""
                      /\ DOMAIN outcome.ccr = DOMAIN groups_ccr \ {name}
                      /\ \A n \in DOMAIN outcome.ccr :
                             outcome.ccr[n] = groups_ccr[n]
                      /\ outcome.direct = groups_direct
                      /\ was_default =>
                             /\ is_none(default_now) <=> DOMAIN outcome.ccr = {}
                             /\ is_some(default_now) =>
                                    default_now[1] \in DOMAIN outcome.ccr
                      /\ ~was_default =>
                             outcome.default_profile = default_profile

\* C12: in every reachable store and for every name, remove on either collection
\* fails with ProfileNotFound and changes nothing when the name is not a key;
\* otherwise it deletes that entry only, and the default, if it was the name,
\* becomes a remaining key, or is cleared exactly when nothing remains, and is
\* unchanged if it was another name.
C12_RemoveAndReassign == remove_direct_as_claimed /\ remove_ccr_as_claimed

\* an entry that was not the default was removed and the default stayed
C12_Witness ==
    /\ store_last.op = "remove_direct_profile"
    /\ store_last.err = ""
    /\ Cardinality(DOMAIN groups_direct) >= 2
    /\ is_some(pointer(default_profile, "direct"))
    /\ store_last.name \notin DOMAIN groups_direct

\* a successful add_direct_profile(name, profile) step: afterwards get returns
\* the profile, and remove of the name gives back the collections and the other
\* group's pointer of before the add
C13_AddStep ==
    store_last'.op = "add_direct_profile" /\ store_last'.err = "" =>
        \A name \in ProfileNames, profile \in DirectProfileInputs :
            StoreCall("add_direct_profile", name, add_direct_profile(name, profile))
            => /\ name \notin DOMAIN groups_direct
               /\ get_direct_profile(name)' = [err |-> "", value |-> Some(profile)]
               /\ \A first_key \in keys_next(groups_direct) :
                      LET after == remove_direct_profile(name, first_key)'
                      IN /\ after.err = ""
                         /\ after.direct = groups_direct
                         /\ after.ccr = groups_ccr
                         /\ pointer(after.default_profile, "ccr")
                                = pointer(default_profile, "ccr")

\* C13: after every successful add(n, v) of a name not present, get(n) returns
\* v, and remove(n) restores the store of before the add in everything but the
\* default pointer of the collection.
C13_AddRemoveInverse == [][C13_AddStep]_vars

\* a third entry was added to a store that also holds a router entry
C13_Witness ==
    /\ store_last.op = "add_direct_profile"
    /\ store_last.err = ""
    /\ Cardinality(DOMAIN groups_direct) = 3
    /\ DOMAIN groups_ccr # {}

(***************************************************************************)
(* C14: the Legacy Migrator.                                               *)
(***************************************************************************)
\* migrating the Config as it is now would change nothing
migrate_is_no_op ==
    migrate_legacy_format =
        Migrated(groups_direct, default_profile, default_group,
                 legacy_default, legacy_profiles)

\* C14: whatever document was loaded, a Config that has been migrated is not
\* changed by migrating it again, and a Config with no legacy field and with
\* default_group set is not changed by migrating it.
C14_MigrationIdempotent ==
    /\ store_last.op = "migrate_legacy_format" => migrate_is_no_op
    /\ (is_none(legacy_default) /\ is_none(legacy_profiles)
           /\ is_some(default_group)) => migrate_is_no_op

\* a document in the old format has been migrated: its profiles were moved over
\* an entry of the same name and its default was promoted
C14_Witness ==
    /\ store_last.op = "migrate_legacy_format"
    /\ groups_direct = insert(EmptyDir, "x", dOk2)
    /\ default_profile = Some([direct |-> Some("x"), ccr |-> None])
    /\ default_group = Some("direct")

\* ---- Bootstrap Resolver claims ----

\* the router profiles the Profile Store holds, as the resolver loads it
held_router_profiles == Config_load_unwrap_or_default(profile_store).router

\* the Proxy Config file exists and can be parsed
document_readable == is_some(config_file) /\ parses(config_file[1])

\* the Proxy Config file exists and its document has at least one provider
has_provider == document_readable /\ on_disk.Providers # <<>>

\* the outcome stores a profile "default" carrying the document's route set,
\* and keeps every other entry of the store
persisted_default(out) ==
    /\ is_some(out.store) /\ parses(out.store[1])
    /\ DOMAIN out.store[1].router = {"default"}
    /\ out.store[1].router["default"].name = "default"
    /\ out.store[1].router["default"].router = on_disk.Router
    /\ out.store[1].direct = Config_load_unwrap_or_default(profile_store).direct

store_empty ==
    \/ is_none(profile_store)
    \/ parses(profile_store[1]) /\ profile_store[1].router = EmptyDir

\* get_router_profile("default") returns a profile named default carrying the
\* document's route set, and the store holds it afterwards
synthesized(out) ==
    /\ out.err = "" /\ is_some(out.value)
    /\ out.value[1].name = "default"
    /\ out.value[1].router = on_disk.Router
    /\ persisted_default(out)
    /\ out.store[1].router["default"] = out.value[1]

\* C16 (as stated): with an empty Profile Store and a Proxy Config document
\* that has at least one provider, get_router_profile("default") returns a
\* newly synthesized profile named default whose route set is the document's.
C16_SynthesizedWheneverProvider ==
    (store_empty /\ has_provider) => synthesized(get_router_profile("default", TRUE))

\* the first half: synthesis from a document whose route set passes validation
C16_Synthesis ==
    (store_empty /\ has_provider /\ CcrRouter_validate(on_disk.Router) = "")
        => synthesized(get_router_profile("default", TRUE))

\* the second half: once the store holds a router profile no step changes the
\* store, and every run of the resolver returns LocalExists
C16_LaterRuns ==
    held_router_profiles # EmptyDir =>
        /\ profile_store' = profile_store
        /\ \A save_ok \in BOOLEAN :
               /\ ensure_router_profile_exists(save_ok).result = "LocalExists"
               /\ ensure_router_profile_exists(save_ok)'.result = "LocalExists"
        /\ (boot_last' # boot_last /\ boot_last'.op = "ensure_router_profile_exists")
               => boot_last'.result = "LocalExists"

\* C16: with an empty Profile Store and a Proxy Config document that has at
\* least one provider and a route set that passes validation,
\* get_router_profile("default") returns a newly synthesized profile named
\* default whose route set is the document's; every later run of the resolver
\* returns LocalExists and leaves the Profile Store unchanged.
C16_SynthesizeThenLocalExists == []C16_Synthesis /\ [][C16_LaterRuns]_vars

\* C16 witness: get_router_profile("default") has synthesized the profile (a
\* second lookup after the resolver ran) and the resolver now returns
\* LocalExists
C16_Witness ==
    /\ boot_last.op = "get_router_profile" /\ boot_last.name = "default"
    /\ boot_last.result = "Ok"
    /\ boot_last.steps = <<"lookup", "ensure", "load", "lookup">>
    /\ boot_last.value = Some(held_router_profiles["default"])
    /\ ensure_router_profile_exists(TRUE).result = "LocalExists"

\* C17: get_router_profile(name) for a name other than "default" that the
\* store does not hold fails with ProfileNotFound after a single lookup: the
\* resolver is not run and the Profile Store file is left as it was (the
\* Proxy Config file is never written by a resolver call).  For "default" the
\* lookup is made at most twice, the second time only after the resolver
\* returned GeneratedDefault.
C17_NotFoundWithoutSynthesis ==
    /\ \A name \in RouterProfileNames, save_ok \in BOOLEAN :
        LET out == get_router_profile(name, save_ok)
            lookups == {i \in 1..Len(out.steps) : out.steps[i] = "lookup"}
        IN  /\ (name # "default" /\ name \notin DOMAIN held_router_profiles) =>
                   /\ out.err = "ProfileNotFound"
                   /\ out.steps = <<"lookup">>
                   /\ out.store = profile_store
            /\ Cardinality(lookups) <= 2
            /\ Cardinality(lookups) = 2 =>
                   /\ name = "default"
                   /\ out.steps = <<"lookup", "ensure", "load", "lookup">>
                   /\ ensure_router_profile_exists(save_ok).err = ""
                   /\ ensure_router_profile_exists(save_ok).result = "GeneratedDefault"
    /\ (boot_last.op = "get_router_profile" /\ boot_last.name # "default"
            /\ boot_last.result # "Ok")
       => boot_last.result = "ProfileNotFound" /\ boot_last.steps = <<"lookup">>

\* C17 witness: a lookup of "other" has failed with ProfileNotFound while the
\* store was empty and the Proxy Config would have allowed a synthesis
C17_Witness ==
    /\ boot_last.op = "get_router_profile" /\ boot_last.name = "other"
    /\ boot_last.result = "ProfileNotFound"
    /\ boot_last.steps = <<"lookup">>
    /\ held_router_profiles = EmptyDir
    /\ has_provider /\ CcrRouter_validate(on_disk.Router) = ""

\* ---- Backup Manager: restore ----

\* C18: restore_from_backup(name) fails and changes nothing when no backup
\* called name exists; when it exists and the restore succeeds, the Proxy
\* Config file holds the content the backup had when the call began, whether
\* the pre-restore backup of the current file succeeds or fails.
C18_RestoreSemantics ==
    \A name \in BackupNames, copy_ok \in BOOLEAN :
        LET out == restore_from_backup(name, copy_ok, TRUE)
        IN  IF name \notin DOMAIN backups
            THEN out.err # "" /\ out.file = config_file /\ out.backups = backups
            ELSE out.err = "" /\ out.file = Some(backups[name])

\* ---- concurrency and crashes ----

\* C19: after two invocations of mutating Reconciler operations have run
\* to completion, in any interleaving of their load, backup and write steps,
\* every complete document that was on disk and was overwritten is the content
\* of some backup.
C19_RaceRecoverable ==
    (\A p \in Procs : pc[p] = "done") => overwritten \subseteq Range(backups)

\* C20: when an invocation has crashed and no other is running, the Proxy
\* Config file is absent or a complete document, never a truncated or partly
\* written one.
C20_CrashSafe ==
    (/\ \E p \in Procs : pc[p] = "crashed"
     /\ \A p \in Procs : pc[p] \in {"idle", "done", "crashed"})
    => (is_none(config_file) \/ parses(config_file[1]))

\* ---- error propagation on the write paths ----

\* C21: on every write path to the Proxy Config file (save_config,
\* generate_ccr_config), when the backup of the existing file fails or the
\* value does not pass validation, the call returns an error and the file is
\* left as it was.
C21_WriteErrorsSurface ==
    /\ \A config \in ConfigInputs, copy_ok \in BOOLEAN :
           LET out == save_config(config, copy_ok)
           IN ((is_some(config_file) /\ ~copy_ok) \/ CcrConfig_validate(config) # "")
              => out.err # "" /\ out.file = config_file
    /\ \A profile \in CcrProfileInputs, copy_ok \in BOOLEAN :
           LET out == generate_ccr_config(profile, copy_ok)
           IN ((is_some(config_file) /\ ~copy_ok) \/ CcrProfile_validate(profile) # "")
              => out.err # "" /\ out.file = config_file

\* ---- the backup trail ----

\* the backups that have at least keep_count newer ones
beyond_newest(keep_count) ==
    {n \in DOMAIN backups :
        Cardinality({m \in DOMAIN backups : m[2] > n[2]}) >= keep_count}

\* C22: in every reachable state, cleanup_old_backups(keep_count) on n
\* backups removes the max(0, n - keep_count) oldest ones, except those whose
\* deletion fails, keeps the keep_count newest with their content, returns
\* the number it removed, never fails and leaves the Proxy Config file alone.
C22_CleanupKeepsNewest ==
    \A keep_count \in 0..MaxKeep, undeletable \in SUBSET (DOMAIN backups) :
        LET out == cleanup_old_backups(keep_count, undeletable)
            n == Cardinality(DOMAIN backups)
            removed == DOMAIN backups \ DOMAIN out.backups
        IN  /\ out.err = ""
            /\ out.file = config_file
            /\ removed = beyond_newest(keep_count) \ undeletable
            /\ out.value = Some(Cardinality(removed))
            /\ \A m \in DOMAIN out.backups : out.backups[m] = backups[m]
            /\ Cardinality(beyond_newest(keep_count))
                   = (IF n > keep_count THEN n - keep_count ELSE 0)
            /\ undeletable = {} =>
                   Cardinality(DOMAIN out.backups)
                       = (IF n > keep_count THEN keep_count ELSE n)

\* C22 witness: a cleanup has removed the older of two backups with different
\* content and kept the newer one
C22_Witness ==
    /\ last.op = "cleanup_old_backups"
    /\ last.steps = <<"remove">>
    /\ DOMAIN backups = {backup_filename(1)}
    /\ is_some(config_file) /\ backups[backup_filename(1)] # config_file[1]

\* C23: in every reachable state, create_backup fails with the "no file to
\* back up" error exactly when the Proxy Config file is missing, and then
\* creates nothing; with a file, and the copy not failing, it succeeds whether
\* or not the backup directory existed, returns the name made from the
\* current second, and the entry of that name is the content of the file; the
\* file and the other entries are left as they were.
C23_CreateBackupCopies ==
    \A copy_ok \in BOOLEAN :
        LET made == CcrManager_create_backup(copy_ok)
            out == made.outcome
            name == backup_filename(now)
        IN  /\ out.err = "Config" <=> is_none(config_file)
            /\ out.file = config_file
            /\ is_none(config_file) =>
                   out.backups = backups /\ made.dir_exists = backup_dir_exists
            /\ (is_some(config_file) /\ copy_ok) =>
                   /\ out.err = ""
                   /\ made.dir_exists
                   /\ out.value = Some(name)
                   /\ DOMAIN out.backups = DOMAIN backups \cup {name}
                   /\ out.backups[name] = config_file[1]
                   /\ \A m \in DOMAIN backups \ {name} : out.backups[m] = backups[m]

\* C23 witness: a backup has been made into a directory that did not exist
C23_Witness ==
    /\ last.op = "create_backup"
    /\ last.err = ""
    /\ last.steps = <<"check", "mkdir", "backup">>
    /\ backup_dir_exists
    /\ DOMAIN backups = {backup_filename(now)}
    /\ backups[backup_filename(now)] = config_file[1]

\* ---- the provider list ----

\* no two entries of the list have the same name
unique_names(providers) ==
    \A i, j \in 1..Len(providers) :
        i # j => providers[i].name # providers[j].name

\* C24: starting from a file whose provider names are unique, the provider
\* names of the document on disk are unique after any sequence of
\* update_provider_only, update_providers_only and save_config calls.
C24_ProviderNamesUnique ==
    is_some(config_file) => unique_names(on_disk.Providers)

\* The document load_config returns once the Proxy Config file is as an outcome
\* leaves it.
loaded_after(out) ==
    IF is_none(out.file) THEN CcrConfig_default ELSE from_str(out.file[1])

RECURSIVE commas(_)
commas(route) ==
    IF Len(route) = 0 THEN 0
    ELSE (IF route[1] = "," THEN 1 ELSE 0) + commas(Tail(route))

\* the routes of a route set whose shape CcrRouter::validate looks at: the
\* default route and the optional routes that are present and not blank
shaped_routes(r) ==
    {r.default} \cup {r[f][1] : f \in {g \in Range(OptionalRoutes) :
                                          is_some(r[g]) /\ ~trim_is_empty(r[g][1])}}

\* C26: CcrRouter::validate accepts a route set only if its default route is
\* present and every route it looks at (the default, and each optional route
\* that is present and not blank) has exactly one comma; a route set with a
\* route of no comma or of more than one comma is rejected with InvalidConfig,
\* so that a route set update_router_only has written has no such route.
C26_ExactlyOneComma ==
    /\ last.op = "update_router_only" /\ last.err = "" =>
          \A route \in shaped_routes(on_disk.Router) : commas(route) = 1
    /\ \A r \in RouteSets :
        /\ CcrRouter_validate(r) = "" =>
              /\ ~trim_is_empty(r.default)
              /\ \A route \in shaped_routes(r) : commas(route) = 1
        /\ (\E route \in shaped_routes(r) : commas(route) # 1) =>
              CcrRouter_validate(r) = "InvalidConfig"

\* the routes of the document load_config returns that name no declared provider
unresolved_routes ==
    dangling_routes(load_config.Providers, load_config.Router)

\* the list validate_router_references returns
problems == validate_router_references.value[1]

\* In every state the diagnostic would return Ok with exactly one entry for each
\* route of the loaded route set that names no declared provider.
C27_CollectAll ==
    /\ validate_router_references.err = ""
    /\ Len(problems) = Cardinality(unresolved_routes)
    /\ \A i \in unresolved_routes :
          Cardinality({k \in 1..Len(problems) :
              problems[k] =
                  [route_name |-> get_all_route_names(load_config.Router)[i],
                   provider_name |->
                       split_first(get_all_routes(load_config.Router)[i])]}) = 1
    /\ problems = <<>> <=> unresolved_routes = {}

\* A step of the diagnostic changes neither document and no backup.
C27_ReadOnly ==
    last'.op = "validate_router_references" =>
        /\ UNCHANGED <<config_file, backups, writes, storeVars, profile_store>>
        /\ last'.steps = <<"load">>

\* C27: validate_router_references returns the full list of problems: exactly one
\* entry for each route of the route set on disk (the default and every present
\* optional route) whose provider segment names no declared provider, the empty
\* list exactly when every route resolves; it writes neither document and
\* creates no backup.
C27_DiagnosticCollectsAll == []C27_CollectAll /\ [][C27_ReadOnly]_vars

\* the diagnostic has run on a document with more than one unresolved route
C27_Witness ==
    /\ last.op = "validate_router_references"
    /\ Len(problems) >= 2
    /\ Cardinality({problems[k].route_name : k \in 1..Len(problems)}) = Len(problems)

\* C28: the default pointer after a removal is a function of the store and of the
\* call: whichever key the iteration of the remaining entries yields first, two
\* runs of remove_direct_profile (remove_ccr_profile) from the same store with
\* the same name end with the same default pointer.
C28_TieBreakDeterministic ==
    \A name \in ProfileNames :
        /\ \A k1, k2 \in keys_next(remove(groups_direct, name)) :
              remove_direct_profile(name, k1).default_profile
                  = remove_direct_profile(name, k2).default_profile
        /\ \A k1, k2 \in keys_next(remove(groups_ccr, name)) :
              remove_ccr_profile(name, k1).default_profile
                  = remove_ccr_profile(name, k2).default_profile

\* the store: both collections and the default pointers
store == <<groups_direct, groups_ccr, default_profile>>

\* the pointer of the other group is the one before the call (None if there was
\* no default record)
other_pointer_kept(group) ==
    default_pointer(group)' = default_pointer(group)

\* A step of set_default_direct or set_default_ccr on its collection.
C29_SetDefaultInGroup ==
    /\ store_last'.op = "set_default_direct" =>
          IF store_last'.name \notin DOMAIN groups_direct
          THEN store_last'.err = "ProfileNotFound" /\ UNCHANGED store
          ELSE /\ store_last'.err = ""
               /\ UNCHANGED <<groups_direct, groups_ccr>>
               /\ default_pointer("direct")' = Some(store_last'.name)
               /\ other_pointer_kept("ccr")
               /\ get_default_direct_profile' =
                     [err |-> "",
                      value |-> Some(<<store_last'.name,
                                       groups_direct[store_last'.name]>>)]
    /\ store_last'.op = "set_default_ccr" =>
          IF store_last'.name \notin DOMAIN groups_ccr
          THEN store_last'.err = "ProfileNotFound" /\ UNCHANGED store
          ELSE /\ store_last'.err = ""
               /\ UNCHANGED <<groups_direct, groups_ccr>>
               /\ default_pointer("ccr")' = Some(store_last'.name)
               /\ other_pointer_kept("direct")
               /\ get_default_ccr_profile' =
                     [err |-> "",
                      value |-> Some(<<store_last'.name,
                                       groups_ccr[store_last'.name]>>)]

\* A step of set_default: the direct collection if it has the name, else the
\* ccr collection, else ProfileNotFound.
C29_SetDefaultAnyGroup ==
    store_last'.op = "set_default" =>
        IF store_last'.name \in DOMAIN groups_direct
        THEN /\ store_last'.err = ""
             /\ UNCHANGED <<groups_direct, groups_ccr>>
             /\ default_pointer("direct")' = Some(store_last'.name)
             /\ other_pointer_kept("ccr")
             /\ get_default_direct_profile'.value[1][2]
                   = groups_direct[store_last'.name]
        ELSE IF store_last'.name \in DOMAIN groups_ccr
        THEN /\ store_last'.err = ""
             /\ UNCHANGED <<groups_direct, groups_ccr>>
             /\ default_pointer("ccr")' = Some(store_last'.name)
             /\ other_pointer_kept("direct")
             /\ get_default_ccr_profile'.value[1][2] = groups_ccr[store_last'.name]
        ELSE store_last'.err = "ProfileNotFound" /\ UNCHANGED store

\* C29: set_default on a name that is not a key of the collection fails with
\* ProfileNotFound and leaves the store unchanged; otherwise it sets the default
\* pointer of the collection to the name and changes nothing else, and
\* get_default then returns the entry stored under the name.
C29_SetDefault == [][C29_SetDefaultInGroup /\ C29_SetDefaultAnyGroup]_vars

\* the default has been moved from one existing entry to another, and
\* get_default returns the new one
C29_Witness ==
    /\ store_last.op = "set_default_direct" /\ store_last.err = ""
    /\ store_last.name = "y"
    /\ DOMAIN groups_direct = {"x", "y"}
    /\ groups_direct["x"] # groups_direct["y"]
    /\ get_default_direct_profile.value = Some(<<"y", groups_direct["y"]>>)

\* In every state: get_default fails with Config (no default set) exactly when
\* the pointer is unset, and get(name) fails, with ProfileNotFound, exactly when
\* the name is absent.
C30_LookupErrors ==
    /\ get_default_direct_profile.err = "Config" <=> is_none(default_pointer("direct"))
    /\ get_default_ccr_profile.err = "Config" <=> is_none(default_pointer("ccr"))
    /\ \A name \in ProfileNames :
          /\ get_direct_profile(name).err \in {"", "ProfileNotFound"}
          /\ get_direct_profile(name).err = "ProfileNotFound"
                <=> name \notin DOMAIN groups_direct
          /\ get_ccr_profile(name).err \in {"", "ProfileNotFound"}
          /\ get_ccr_profile(name).err = "ProfileNotFound"
                <=> name \notin DOMAIN groups_ccr

\* A lookup step reports the result of the lookup and changes nothing.
C30_LookupStep ==
    /\ store_last'.op \in {"get_direct_profile", "get_ccr_profile",
                           "get_default_direct_profile", "get_default_ccr_profile"}
          => UNCHANGED <<store, fileVars, legacyVars, profile_store>>
    /\ store_last'.op = "get_default_direct_profile" =>
          store_last'.err = get_default_direct_profile.err
    /\ store_last'.op = "get_default_ccr_profile" =>
          store_last'.err = get_default_ccr_profile.err

\* C30: get and get_default change nothing; get_default fails with the
\* no-default-set error (AppError::Config) exactly when the default pointer of the
\* collection is unset, and that error is not the ProfileNotFound get(name)
\* returns for an absent name.
C30_ReadOnlyLookups == []C30_LookupErrors /\ [][C30_LookupStep]_vars

\* get_default has failed on the ccr collection, whose pointer is unset, while
\* the direct collection has a default; get(name) on an absent name fails with
\* the other error
C30_Witness ==
    /\ store_last.op = "get_default_ccr_profile" /\ store_last.err = "Config"
    /\ get_default_direct_profile.err = ""
    /\ "z" \notin DOMAIN groups_direct
    /\ get_direct_profile("z").err = "ProfileNotFound"

\* a listing of a map: every entry exactly once with its name and profile, tagged
\* default exactly when its name is the pointer; one tag if the map has entries,
\* none if it has not
listing_as_claimed(listed, map, default_name) ==
    /\ Len(listed) = Cardinality(DOMAIN map)
    /\ \A name \in DOMAIN map :
          Cardinality({i \in DOMAIN listed : listed[i].name = name}) = 1
    /\ \A i \in DOMAIN listed :
          /\ listed[i].name \in DOMAIN map
          /\ listed[i].profile = map[listed[i].name]
          /\ listed[i].is_default <=> default_name = Some(listed[i].name)
    /\ Cardinality({i \in DOMAIN listed : listed[i].is_default})
          = IF DOMAIN map = {} THEN 0 ELSE 1

\* C31: in every state reachable from the empty store, whatever the iteration
\* order, list returns every entry of the collection exactly once, tagged default
\* iff its name is the default pointer of the collection: exactly one entry is
\* tagged when the collection has entries and none when it is empty.
C31_ListTagsOneDefault ==
    /\ \A order \in iter(groups_direct) :
          listing_as_claimed(list_direct_profiles(order), groups_direct,
                             default_pointer("direct"))
    /\ \A order \in iter(groups_ccr) :
          listing_as_claimed(list_ccr_profiles(order), groups_ccr,
                             default_pointer("ccr"))

\* three direct profiles have been listed; in an iteration order that starts with
\* x the third entry carries the tag and the first does not
C31_Witness ==
    /\ store_last.op = "list_direct_profiles" /\ store_last.err = ""
    /\ DOMAIN groups_direct = {"x", "y", "z"}
    /\ \E order \in iter(groups_direct) :
          /\ order[1] = "x"
          /\ list_direct_profiles(order)[3].is_default
          /\ ~list_direct_profiles(order)[1].is_default

\* the shape rule of the kind of a provider, as the claim words it
url_shape_ok(p) ==
    IF is_none(p.provider_type) THEN TRUE
    ELSE IF p.provider_type[1] = "Gemini" THEN contains(p.api_base_url, "/v1beta/models/")
    ELSE IF p.provider_type[1] = "Custom" THEN TRUE
    ELSE contains(p.api_base_url, "/chat/completions")

\* what the claim requires of an accepted provider
provider_acceptable(p) ==
    /\ ~trim_is_empty(p.name)
    /\ starts_with(p.api_base_url, "http://") \/ starts_with(p.api_base_url, "https://")
    /\ Len(p.models) > 0
    /\ url_shape_ok(p)

\* C32: CcrProvider::validate accepts a provider iff its name is not blank, its
\* URL starts with http:// or https://, its models list is not empty and the URL
\* satisfies the rule of its kind (Gemini: /v1beta/models/; Custom and no kind:
\* none; every other kind: /chat/completions); it fails with InvalidConfig
\* otherwise, so that update_providers_only writes acceptable providers only.
C32_ProviderValidation ==
    /\ \A p \in ProviderShapes :
          /\ CcrProvider_validate(p) \in {"", "InvalidConfig"}
          /\ CcrProvider_validate(p) = "" <=> provider_acceptable(p)
    /\ last.op = "update_providers_only" /\ last.err = "" =>
          \A i \in 1..Len(on_disk.Providers) :
              provider_acceptable(on_disk.Providers[i])

\* a Custom provider with a plain URL has been accepted and written, and the same
\* provider as an OpenAI one would be refused
C32_Witness ==
    /\ last.op = "update_providers_only" /\ last.err = ""
    /\ Len(on_disk.Providers) = 1
    /\ on_disk.Providers[1].provider_type = Some("Custom")
    /\ on_disk.Providers[1].api_base_url = UrlPlain
    /\ CcrProvider_validate([on_disk.Providers[1] EXCEPT
                                !.provider_type = Some("OpenAI")]) = "InvalidConfig"

\* direct profiles of every shape
DirectShapes ==
    [anthropic_auth_token : {<<"t1">>, <<" ">>, <<>>},
     anthropic_base_url : {<<"https://", "host">>, <<"http://", "host">>,
                           <<"ftp://", "host">>, <<"host">>, <<" ">>, <<>>},
     description : {None}, created_at : {None}]

\* the profiles the claim says are rejected
direct_rejectable(d) ==
    \/ trim_is_empty(d.anthropic_auth_token)
    \/ trim_is_empty(d.anthropic_base_url)
    \/ /\ ~starts_with(d.anthropic_base_url, "http://")
       /\ ~starts_with(d.anthropic_base_url, "https://")

\* C33: validate_direct_profile rejects, with InvalidConfig, exactly the profiles
\* whose auth token is blank, whose base URL is blank, or whose base URL starts
\* with neither http:// nor https://, and accepts every other one; the direct
\* collection therefore never holds a rejected profile.
C33_DirectValidation ==
    /\ \A d \in DirectShapes \cup DirectProfileInputs :
          /\ validate_direct_profile(d) \in {"", "InvalidConfig"}
          /\ validate_direct_profile(d) = "InvalidConfig" <=> direct_rejectable(d)
    /\ \A name \in DOMAIN groups_direct : ~direct_rejectable(groups_direct[name])
    /\ store_last.op = "add_direct_profile" /\ store_last.err = "InvalidConfig"
          => store_last.name \notin DOMAIN groups_direct

\* add has refused a profile with InvalidConfig while another profile, accepted
\* earlier, is stored
C33_Witness ==
    /\ store_last.op = "add_direct_profile" /\ store_last.err = "InvalidConfig"
    /\ store_last.name = "y"
    /\ DOMAIN groups_direct = {"x"}
    /\ validate_direct_profile(groups_direct["x"]) = ""

\* A step of migrate_legacy_format.
C34_MigrateStep ==
    store_last'.op = "migrate_legacy_format" =>
        /\ legacy_default' = None
        /\ legacy_profiles' = None
        /\ is_some(legacy_profiles) =>
              \A name \in DOMAIN legacy_profiles[1] :
                  /\ name \in DOMAIN groups_direct'
                  /\ groups_direct'[name] = legacy_profiles[1][name]
        /\ default_pointer("direct")' =
              IF is_some(default_pointer("direct"))
              THEN default_pointer("direct") ELSE legacy_default
        /\ default_group' =
              IF is_none(default_group) THEN Some("direct") ELSE default_group
        /\ groups_ccr' = groups_ccr
        /\ default_pointer("ccr")' = default_pointer("ccr")

\* C34: after migrate_legacy_format both legacy fields are absent; every entry of
\* the legacy profiles is an entry of groups.direct under its name; a direct
\* default that was set is kept and an unset one becomes the legacy default;
\* default_group is "direct" if it was absent and unchanged otherwise; the ccr
\* collection and the ccr default are untouched.
C34_Migration == [][C34_MigrateStep]_vars

\* a migrated document that kept its direct default x and its default_group ccr
\* and received the legacy profile z
C34_Witness ==
    /\ store_last.op = "migrate_legacy_format"
    /\ default_pointer("direct") = Some("x")
    /\ default_group = Some("ccr")
    /\ "z" \in DOMAIN groups_direct
    /\ legacy_default = None /\ legacy_profiles = None

\* the direct default is unset or keys groups.direct
direct_default_keyed ==
    is_some(default_pointer("direct")) =>
        default_pointer("direct")[1] \in DOMAIN groups_direct

\* A step of migrate_legacy_format from a document whose current direct default,
\* if set, keys groups.direct.
C35_MigrateStep ==
    store_last'.op = "migrate_legacy_format" /\ direct_default_keyed
        => direct_default_keyed'

\* C35: whatever the legacy default and the legacy profiles contain, migrating a
\* document whose current direct default is unset or keys groups.direct gives a
\* document whose direct default is unset or keys groups.direct.
C35_LoadEstablishesDefault == [][C35_MigrateStep]_vars

\* the Profile Store file exists and cannot be parsed
store_unreadable == is_some(profile_store) /\ ~parses(profile_store[1])

\* A step from a state whose Profile Store file cannot be parsed: the file is
\* left as it is, and a resolver call reports the parse failure.
C36_UnreadableStep ==
    store_unreadable =>
        /\ profile_store' = profile_store
        /\ boot_last'.op \in {"ensure_router_profile_exists", "get_router_profile"}
              /\ boot_last' # boot_last
              => boot_last'.result = Config_load(profile_store).err

\* C36: a Profile Store file that exists but cannot be parsed is never
\* overwritten: ensure_router_profile_exists and get_router_profile return the
\* load failure instead of taking the store for empty and saving a fresh document
\* over it.
C36_UnreadableStoreKept == [][C36_UnreadableStep]_vars

\* A step of use_router_profile.
C37_UseStep ==
    boot_last'.op = "use_router_profile" /\ boot_last' # boot_last =>
        IF boot_last'.result = "Ok"
        THEN /\ profile_store'[1].default_router = Some(boot_last'.name)
             /\ on_disk'.Router = profile_store'[1].router[boot_last'.name].router
        ELSE UNCHANGED <<profile_store, config_file>>

\* C37: use_router_profile is all-or-nothing: on success the persisted router
\* default is the name and the route set on disk is the profile's; when it
\* returns an error the Profile Store and the Proxy Config document are as
\* before the call.
C37_UseAllOrNothing == [][C37_UseStep]_vars

\* the routes of a route set that are present and not blank
nonblank_routes(r) ==
    {route \in Range(get_all_routes(r)) : ~trim_is_empty(route)}

\* C38: in every state update_router_only, its backup succeeding, accepts every
\* route set that passes CcrRouter::validate and whose present, non-blank routes
\* all name providers the document declares; a present but blank optional route
\* does not make it reject.
C38_BlankRouteTolerated ==
    \A r \in RouteSets :
        /\ CcrRouter_validate(r) = ""
        /\ \A route \in nonblank_routes(r) :
              split_first(route) \in provider_names(load_config.Providers)
        => update_router_only(r, TRUE).err = ""

\* C39: in every state reachable from the empty store by add, remove and
\* set_default calls, a collection has entries if and only if its default pointer
\* is set.
C39_DefaultIffNonEmpty ==
    /\ groups_direct # EmptyDir <=> is_some(default_pointer("direct"))
    /\ groups_ccr # EmptyDir <=> is_some(default_pointer("ccr"))

\* remove has emptied the ccr collection and cleared its pointer, while the
\* direct collection holds two entries and a default among them
C39_Witness ==
    /\ store_last.op = "remove_ccr_profile" /\ store_last.err = ""
    /\ groups_ccr = EmptyDir /\ is_none(default_pointer("ccr"))
    /\ Cardinality(DOMAIN groups_direct) = 2
    /\ is_some(default_pointer("direct"))
    /\ default_pointer("direct")[1] \in DOMAIN groups_direct

\* the ccr collection and its default pointer are as before the step
ccr_untouched ==
    groups_ccr' = groups_ccr /\ default_pointer("ccr")' = default_pointer("ccr")

\* the direct collection and its default pointer are as before the step
direct_untouched ==
    groups_direct' = groups_direct
        /\ default_pointer("direct")' = default_pointer("direct")

\* A step of an operation of one collection, or of a group-agnostic one.
C40_Frame ==
    /\ store_last'.op \in {"add_direct_profile", "remove_direct_profile",
                           "set_default_direct"} => ccr_untouched
    /\ store_last'.op \in {"add_ccr_profile", "remove_ccr_profile",
                           "set_default_ccr"} => direct_untouched
    /\ store_last'.op \in {"remove_profile", "set_default"} =>
          /\ store_last'.name \in DOMAIN groups_direct => ccr_untouched
          /\ store_last'.name \notin DOMAIN groups_direct => direct_untouched
    /\ store_last'.op = "remove_profile"
          /\ store_last'.name \in DOMAIN groups_direct \cap DOMAIN groups_ccr
          => /\ store_last'.name \notin DOMAIN groups_direct'
             /\ store_last'.name \in DOMAIN groups_ccr'
    /\ store_last'.op = "set_default"
          /\ store_last'.name \in DOMAIN groups_direct \cap DOMAIN groups_ccr
          => default_pointer("direct")' = Some(store_last'.name)

\* C40: add, remove and set_default on the direct collection never change the
\* entries or the default pointer of the ccr collection, and the other way round;
\* remove_profile(name) and set_default(name) act on the direct collection alone
\* when the name is a key of both.
C40_CollectionsIndependent == [][C40_Frame]_vars

\* set_default has been called with a name that keys both collections: the
\* direct default is that name, the ccr default is another one
C40_Witness ==
    /\ store_last.op = "set_default" /\ store_last.err = ""
    /\ store_last.name = "y"
    /\ "y" \in DOMAIN groups_direct \cap DOMAIN groups_ccr
    /\ default_pointer("direct") = Some("y")
    /\ default_pointer("ccr") = Some("x")

==============================================================================
